---------------------------- MODULE Spec2Model ----------------------------
(***************************************************************************)
(* A model of the PDF annotator: the session owner (src/app/page.tsx       *)
(* Home), the viewer (src/components/PDFViewer.tsx PDFViewer) and its      *)
(* export pipeline (exportPDF), together with the URL codec of the         *)
(* annotation collection.                                                  *)
(*                                                                         *)
(* JavaScript values are tagged records:                                   *)
(*   [t |-> "undefined"], [t |-> "null"], [t |-> "bool", b |-> ..],        *)
(*   [t |-> "num", c |-> .., neg |-> .., m |-> .., e |-> ..]  a number, an *)
(*       IEEE-754 double: c is "nan", "inf" or "fin", neg its sign, and a  *)
(*       finite one is m * 2^e, m a natural number held in limbs of 15     *)
(*       bits, lowest first, and odd unless the number is whole,           *)
(*   [t |-> "str", s |-> <<code units>>],                                  *)
(*   [t |-> "arr", a |-> <<values>>],                                      *)
(*   [t |-> "obj", o |-> <<[k |-> key, v |-> value], ...>>]  an object,    *)
(*       its properties in the order the language lists them.              *)
(* A string is the sequence of its UTF-16 code units.                      *)
(***************************************************************************)
EXTENDS Integers, Sequences, FiniteSets, TLC

VARIABLES
    \* ---- Home (src/app/page.tsx)
    mounted,            \* has the mount effect (useEffect, []) run
    pdfFile,            \* useState<File|null>: TRUE when a file is held
    pdfUrl,             \* useState<string|null>: TRUE when a url is held
    annotations,        \* useState<Annotation[]>: a JavaScript value
    search,             \* window.location.search, a string
    \* ---- PDFViewer (src/components/PDFViewer.tsx)
    crashed,            \* a render of the viewer threw
    numPages, pageNumber, scale, newText, fontSize, textColor,
    pdfDimensions, selectedAnnotation, editingText,
    timers,             \* pending setTimeout callbacks of handleContextMenu,
                        \* in the order they were set
    \* ---- environment
    now,                \* Date.now()
    events,             \* how many user and renderer events were taken
    \* ---- the invocations of exportPDF, each variable a function of the
    \*      invocation's number (the export button is never disabled, so
    \*      invocations overlap)
    expPc,              \* where the invocation stands
    expAnnotations,     \* `annotations` of the render whose closure runs
    expDims,            \* `pdfDimensions` of that render
    expFont,            \* the font embedded: "none", "custom" or "standard"
    draws,              \* the drawText calls made, in order
    expAlert,           \* what the outer catch caught: "none", "load",
                        \* "font", "annotation" or "save"
    expShown,           \* history: the collection and the page dimensions
                        \* the session held when the button was clicked
    \* ---- the codec and the transform applied to drawn inputs
    fnIn, fnOut, fnPc

vars == <<mounted, pdfFile, pdfUrl, annotations, search, crashed, numPages,
          pageNumber, scale, newText, fontSize, textColor, pdfDimensions,
          selectedAnnotation, editingText, timers, now, events, expPc,
          expAnnotations, expDims, expFont, draws, expAlert, expShown,
          fnIn, fnOut, fnPc>>

homeVars   == <<mounted, pdfFile, pdfUrl, annotations, search>>
viewerVars == <<crashed, numPages, pageNumber, scale, newText, fontSize,
                textColor, pdfDimensions, selectedAnnotation, editingText,
                timers>>
exportVars == <<expPc, expAnnotations, expDims, expFont, draws, expAlert,
                expShown>>
fnVars     == <<fnIn, fnOut, fnPc>>

---------------------------------------------------------------------------
(* Sequences *)

RECURSIVE Flatten(_)
\* The concatenation of a sequence of sequences (halving, so that the
\* recursion is logarithmic in its length).
Flatten(ss) ==
    IF Len(ss) > 4
    THEN Flatten(SubSeq(ss, 1, Len(ss) \div 2))
         \o Flatten(SubSeq(ss, (Len(ss) \div 2) + 1, Len(ss)))
    ELSE IF Len(ss) = 4 THEN ss[1] \o ss[2] \o ss[3] \o ss[4]
    ELSE IF Len(ss) = 3 THEN ss[1] \o ss[2] \o ss[3]
    ELSE IF Len(ss) = 2 THEN ss[1] \o ss[2]
    ELSE IF Len(ss) = 1 THEN ss[1]
    ELSE <<>>

\* The elements of s at the positions from..to that s has.
Slice(s, from, to) ==
    IF from > to \/ from > Len(s) THEN <<>>
    ELSE SubSeq(s, IF from < 1 THEN 1 ELSE from, IF to > Len(s) THEN Len(s) ELSE to)

\* The elements of s at the positions in keep, in order.
KeepIndices(s, keep) ==
    LET tagged == [i \in 1..Len(s) |-> <<i, s[i]>>]
        Kept(p) == p[1] \in keep
        sel == SelectSeq(tagged, Kept)
    IN  [j \in 1..Len(sel) |-> sel[j][2]]

\* The least and the greatest element of a non-empty set of integers.
Least(S) == CHOOSE m \in S : \A k \in S : m <= k
Greatest(S) == -Least({-k : k \in S})

\* The members of S, a set of integers from lo to hi, in increasing order.
SortedWithin(S, lo, hi) ==
    KeepIndices([i \in 1..(hi - lo + 1) |-> lo + i - 1],
                {i \in 1..(hi - lo + 1) : lo + i - 1 \in S})

\* The members of a finite set of integers in increasing order.
Sorted(S) == IF S = {} THEN <<>> ELSE SortedWithin(S, Least(S), Greatest(S))

\* The first position >= from at which s holds an element of cs, or 0.
IndexOf(s, cs, from) ==
    LET hits == {i \in from..Len(s) : s[i] \in cs}
    IN  IF hits = {} THEN 0 ELSE Least(hits)

Abs(i) == IF i < 0 THEN -i ELSE i

RECURSIVE Pow2(_)
Pow2(k) == IF k = 0 THEN 1 ELSE 2 * Pow2(k - 1)

---------------------------------------------------------------------------
(* Natural numbers of any size: the limbs of base 2^15, the least first,    *)
(* with no zero limb at the end; <<>> is 0.                                  *)

Base == 128 * 256

\* a without the zero limbs at its end.
BTrim(a) ==
    IF a = <<>> \/ a[Len(a)] # 0 THEN a
    ELSE IF \A i \in 1..Len(a) : a[i] = 0 THEN <<>>
    ELSE SubSeq(a, 1, Greatest({i \in 1..Len(a) : a[i] # 0}))

RECURSIVE BOf(_)
\* The limbs of a natural number of the model's integers.
BOf(i) == IF i = 0 THEN <<>> ELSE <<i % Base>> \o BOf(i \div Base)

Limb(a, i) == IF i <= Len(a) THEN a[i] ELSE 0

\* -1, 0 or 1 as a < b, a = b or a > b.
BCmp(a, b) ==
    IF Len(a) # Len(b) THEN (IF Len(a) < Len(b) THEN -1 ELSE 1)
    ELSE LET diff == {i \in 1..Len(a) : a[i] # b[i]}
         IN  IF diff = {} THEN 0
             ELSE IF a[Greatest(diff)] < b[Greatest(diff)] THEN -1 ELSE 1

\* The carry into limb i of a sum whose limbs before carrying are s: that
\* of the nearest limb below that is not Base - 1.
CarryInto(s, i) ==
    LET J == {j \in 1..(i - 1) : s[j] # Base - 1}
    IN  IF J = {} THEN 0 ELSE IF s[Greatest(J)] >= Base THEN 1 ELSE 0

\* The limbs of a sum whose limbs before carrying are s, each below 2 Base - 1.
Carried(s) == BTrim([i \in 1..Len(s) |-> (s[i] + CarryInto(s, i)) % Base])

SumLimbs(a, b, n) == [i \in 1..(n + 1) |-> Limb(a, i) + Limb(b, i)]

BAdd(a, b) ==
    IF b = <<>> THEN a
    ELSE IF a = <<>> THEN b
    ELSE Carried(SumLimbs(a, b, IF Len(a) > Len(b) THEN Len(a) ELSE Len(b)))

\* The borrow from limb i of a difference whose limbs before borrowing are d.
BorrowFrom(d, i) ==
    LET J == {j \in 1..(i - 1) : d[j] # 0}
    IN  IF J = {} THEN 0 ELSE IF d[Greatest(J)] < 0 THEN 1 ELSE 0

Borrowed(d) == BTrim([i \in 1..Len(d) |-> (d[i] - BorrowFrom(d, i) + Base) % Base])

\* a - b for a >= b.
BSub(a, b) ==
    IF b = <<>> THEN a ELSE Borrowed([i \in 1..Len(a) |-> a[i] - Limb(b, i)])

\* a * 2^(15 n).
BShiftLimbs(a, n) == IF a = <<>> THEN <<>> ELSE [i \in 1..n |-> 0] \o a

\* a * k for 0 <= k < 2^15: the low halves of the limbs' products and, one
\* limb up, the high halves.
BMulSmall(a, k) ==
    IF k = 0 \/ a = <<>> THEN <<>>
    ELSE IF k = 1 THEN a
    ELSE Carried([i \in 1..(Len(a) + 1) |->
                     (IF i <= Len(a) THEN (a[i] * k) % Base ELSE 0)
                     + (IF i > 1 THEN (a[i - 1] * k) \div Base ELSE 0)])

RECURSIVE BMulLimbs(_, _, _, _)
\* The sum of a * b[j] * 2^(15 (j - 1)) over j in lo..hi.
BMulLimbs(a, b, lo, hi) ==
    IF lo = hi THEN BShiftLimbs(BMulSmall(a, b[lo]), lo - 1)
    ELSE BAdd(BMulLimbs(a, b, lo, (lo + hi) \div 2),
              BMulLimbs(a, b, ((lo + hi) \div 2) + 1, hi))

BMul(a, b) == IF a = <<>> \/ b = <<>> THEN <<>> ELSE BMulLimbs(a, b, 1, Len(b))

\* a * 2^n.
BShl(a, n) == BShiftLimbs(BMulSmall(a, Pow2(n % 15)), n \div 15)

\* floor(a / 2^s) for 0 <= s < 15.
BShrBits(a, s) ==
    IF s = 0 THEN a
    ELSE BTrim([i \in 1..Len(a) |->
                   (a[i] \div Pow2(s)) + (Limb(a, i + 1) % Pow2(s)) * Pow2(15 - s)])

\* floor(a / 2^n).
BShr(a, n) ==
    IF n \div 15 >= Len(a) THEN <<>>
    ELSE BShrBits(SubSeq(a, (n \div 15) + 1, Len(a)), n % 15)

RECURSIVE BDivFrom(_, _, _, _)
\* The quotient limbs, the least first, and the remainder of the limbs
\* a[1..i] after the remainder rem of the limbs above, by 0 < k <= 2^15.
BDivFrom(a, k, i, rem) ==
    IF i = 0 THEN [q |-> <<>>, r |-> rem]
    ELSE LET cur  == rem * Base + a[i]
             rest == BDivFrom(a, k, i - 1, cur % k)
         IN  IF cur < 0 THEN rest ELSE [q |-> Append(rest.q, cur \div k), r |-> rest.r]

\* floor(a / k) and a mod k for 0 < k <= 2^15.
BDivSmall(a, k) ==
    LET d == BDivFrom(a, k, Len(a), 0) IN [q |-> BTrim(d.q), r |-> d.r]

RECURSIVE BitsOf(_)
\* The number of bits of a limb.
BitsOf(k) == IF k = 0 THEN 0 ELSE 1 + BitsOf(k \div 2)

\* The number of bits of a.
BBitLen(a) == IF a = <<>> THEN 0 ELSE 15 * (Len(a) - 1) + BitsOf(a[Len(a)])

RECURSIVE LowZeros(_)
LowZeros(k) == IF k % 2 = 1 THEN 0 ELSE 1 + LowZeros(k \div 2)

\* The number of zero bits at the low end of a # 0.
BLowZeros(a) ==
    LET i == Least({j \in 1..Len(a) : a[j] # 0}) IN 15 * (i - 1) + LowZeros(a[i])

BIsOdd(a) == a # <<>> /\ a[1] % 2 = 1

RECURSIVE QuotLimb(_, _, _, _)
\* The greatest q in lo..hi with b * q <= r (b * lo <= r).
QuotLimb(r, b, lo, hi) ==
    IF lo = hi THEN lo
    ELSE IF BCmp(BMulSmall(b, (lo + hi + 1) \div 2), r) <= 0
         THEN QuotLimb(r, b, (lo + hi + 1) \div 2, hi)
         ELSE QuotLimb(r, b, lo, ((lo + hi + 1) \div 2) - 1)

RECURSIVE BDivModFrom(_, _, _, _)
\* Long division of the limbs a[1..i] by b, rem < b being what is left of
\* the limbs above; the quotient limbs come the least first.
BDivModFrom(a, b, i, rem) ==
    IF i = 0 THEN [q |-> <<>>, r |-> rem]
    ELSE LET cur == BTrim(<<a[i]>> \o rem)
             ql == QuotLimb(cur, b, 0, Base - 1)
             rest == BDivModFrom(a, b, i - 1, BSub(cur, BMulSmall(b, ql)))
         IN  IF ql < 0 THEN rest ELSE [q |-> Append(rest.q, ql), r |-> rest.r]

\* floor(a / b) and a mod b for b # 0: the limbs of a above the lowest
\* Len(a) - Len(b) + 1 are less than b.
BDivMod(a, b) ==
    IF Len(a) < Len(b) THEN [q |-> <<>>, r |-> a]
    ELSE LET d == BDivModFrom(a, b, Len(a) - Len(b) + 1,
                              BTrim(SubSeq(a, Len(a) - Len(b) + 2, Len(a))))
         IN  [q |-> BTrim(d.q), r |-> d.r]

RECURSIVE BPow(_, _)
\* k^n for 0 < k < 2^15.
BPow(k, n) ==
    IF n = 0 THEN <<1>>
    ELSE IF n % 2 = 1 THEN BMulSmall(BPow(k, n - 1), k)
    ELSE BMul(BPow(k, n \div 2), BPow(k, n \div 2))

\* The value of a, for a below 2^31.
BToInt(a) ==
    Limb(a, 1) + Base * Limb(a, 2) + Base * Base * Limb(a, 3)

---------------------------------------------------------------------------
(* Numbers: IEEE-754 doubles.                                                *)
(*   [t |-> "num", c |-> "nan"], c |-> "inf" with a sign, and c |-> "fin":  *)
(*   (-1)^neg * m * 2^e, m a natural number that is odd, or a whole number  *)
(*   below 2^53 with e = 0.                                                 *)

NaN == [t |-> "num", c |-> "nan", neg |-> FALSE, m |-> <<>>, e |-> 0]
Inf(neg) == [t |-> "num", c |-> "inf", neg |-> neg, m |-> <<>>, e |-> 0]
Zero(neg) == [t |-> "num", c |-> "fin", neg |-> neg, m |-> <<>>, e |-> 0]

\* The whole number i of the model's integers.
Whole(i) == [t |-> "num", c |-> "fin", neg |-> i < 0, m |-> BOf(Abs(i)), e |-> 0]

IsNaN(a) == a.c = "nan"
IsFinite(a) == a.c = "fin"
IsZero(a) == a.c = "fin" /\ a.m = <<>>

\* The double (-1)^neg * odd * 2^e for an odd number of 53 bits at most.
FinOdd(neg, odd, e) ==
    IF e > 0 /\ BBitLen(odd) + e <= 53
    THEN [t |-> "num", c |-> "fin", neg |-> neg, m |-> BShl(odd, e), e |-> 0]
    ELSE [t |-> "num", c |-> "fin", neg |-> neg, m |-> odd, e |-> e]

\* The double (-1)^neg * m * 2^e for m # 0 of 53 bits at most, or infinity
\* when that is 2^1024 or more.
Fin(neg, m, e) ==
    IF BBitLen(m) + e > 1024 THEN Inf(neg)
    ELSE LET z == IF BIsOdd(m) THEN 0 ELSE BLowZeros(m)
         IN  FinOdd(neg, IF z = 0 THEN m ELSE BShr(m, z), e + z)

\* n * 2^e rounded to a whole multiple of 2^(e + s), s > 0, q being
\* floor(n / 2^s): to the nearest, a tie to the even one.
RoundedAt(neg, n, e, s, q) ==
    LET c  == BCmp(BShl(BSub(n, BShl(q, s)), 1), BShl(<<1>>, s))
        up == c > 0 \/ (c = 0 /\ BIsOdd(q))
    IN  IF ~up /\ q = <<>> THEN Zero(neg)
        ELSE Fin(neg, IF up THEN BAdd(q, <<1>>) ELSE q, e + s)

\* The bits n * 2^e loses when it is written as a double.
LostBits(n, e) ==
    IF BBitLen(n) + e - 53 >= -1074 THEN BBitLen(n) - 53 ELSE -1074 - e

\* The double nearest to (-1)^neg * n * 2^e.
RoundDyadic(neg, n, e) ==
    IF n = <<>> THEN Zero(neg)
    ELSE IF LostBits(n, e) <= 0 THEN Fin(neg, n, e)
    ELSE RoundedAt(neg, n, e, LostBits(n, e), BShr(n, LostBits(n, e)))

\* The double nearest to (-1)^neg * (n / d) * 2^(e - s), given the quotient
\* and remainder of n * 2^s by d, the quotient of 56 bits or more when the
\* remainder is not 0.
RoundQuotient(neg, d, e, s) ==
    RoundDyadic(neg,
                BAdd(BShl(d.q, 1), IF d.r = <<>> THEN <<>> ELSE <<1>>),
                e - s - 1)

RatioShift(n, d) ==
    IF 56 + BBitLen(d) - BBitLen(n) > 0 THEN 56 + BBitLen(d) - BBitLen(n) ELSE 0

\* The double nearest to (-1)^neg * (n / d) * 2^e, for n, d # 0.
RoundRatio(neg, n, d, e) ==
    RoundQuotient(neg,
                  IF d = <<1>> THEN [q |-> n, r |-> <<>>]
                  ELSE BDivMod(BShl(n, RatioShift(n, d)), d),
                  e,
                  IF d = <<1>> THEN 0 ELSE RatioShift(n, d))

\* -1, 0 or 1 as |a| < |b|, |a| = |b| or |a| > |b|, for finite a and b.
MagCmp(a, b) ==
    IF a.m = <<>> \/ b.m = <<>>
    THEN (IF a.m = b.m THEN 0 ELSE IF a.m = <<>> THEN -1 ELSE 1)
    ELSE IF BBitLen(a.m) + a.e # BBitLen(b.m) + b.e
         THEN (IF BBitLen(a.m) + a.e < BBitLen(b.m) + b.e THEN -1 ELSE 1)
         ELSE IF a.e = b.e THEN BCmp(a.m, b.m)
         ELSE IF a.e > b.e THEN BCmp(BShl(a.m, a.e - b.e), b.m)
              ELSE BCmp(a.m, BShl(b.m, b.e - a.e))

\* -1, 0 or 1 as a < b, a = b or a > b, for a and b that are not NaN
\* (-0 = +0).
NumCmp(a, b) ==
    IF a.c = "inf" \/ b.c = "inf"
    THEN (IF a.c = b.c /\ a.neg = b.neg THEN 0
          ELSE IF a.c = "inf" THEN (IF a.neg THEN -1 ELSE 1)
          ELSE (IF b.neg THEN 1 ELSE -1))
    ELSE IF IsZero(a) /\ IsZero(b) THEN 0
    ELSE IF a.neg # b.neg THEN (IF a.neg THEN -1 ELSE 1)
    ELSE IF a.neg THEN -MagCmp(a, b) ELSE MagCmp(a, b)

\* a < b, a <= b and a === b of numbers.
NumLt(a, b) == ~IsNaN(a) /\ ~IsNaN(b) /\ NumCmp(a, b) < 0
NumLe(a, b) == ~IsNaN(a) /\ ~IsNaN(b) /\ NumCmp(a, b) <= 0
NumEq(a, b) == ~IsNaN(a) /\ ~IsNaN(b) /\ NumCmp(a, b) = 0

NumNeg(a) == IF IsNaN(a) THEN a ELSE [a EXCEPT !.neg = ~a.neg]

\* The sum of finite a and b that are not both zero: their mantissas at the
\* lesser exponent e.
SumAt(a, b, e, ma, mb) ==
    LET c == IF a.neg = b.neg THEN 1 ELSE BCmp(ma, mb)
    IN  IF c = 0 THEN Zero(FALSE)
        ELSE RoundDyadic(IF c > 0 THEN a.neg ELSE b.neg,
                         IF a.neg = b.neg THEN BAdd(ma, mb)
                         ELSE IF c > 0 THEN BSub(ma, mb) ELSE BSub(mb, ma),
                         e)

FiniteSum(a, b, e) == SumAt(a, b, e, BShl(a.m, a.e - e), BShl(b.m, b.e - e))

\* a + b.
NumAdd(a, b) ==
    IF IsNaN(a) \/ IsNaN(b) THEN NaN
    ELSE IF a.c = "inf" THEN (IF b.c = "inf" /\ a.neg # b.neg THEN NaN ELSE a)
    ELSE IF b.c = "inf" THEN b
    ELSE IF IsZero(a) /\ IsZero(b) THEN Zero(a.neg /\ b.neg)
    ELSE IF IsZero(a) THEN b
    ELSE IF IsZero(b) THEN a
    ELSE FiniteSum(a, b, IF a.e < b.e THEN a.e ELSE b.e)

\* a - b.
NumSub(a, b) == NumAdd(a, NumNeg(b))

\* a * b.
NumMul(a, b) ==
    IF IsNaN(a) \/ IsNaN(b) THEN NaN
    ELSE IF a.c = "inf" \/ b.c = "inf"
         THEN (IF IsZero(a) \/ IsZero(b) THEN NaN ELSE Inf(a.neg # b.neg))
    ELSE IF IsZero(a) \/ IsZero(b) THEN Zero(a.neg # b.neg)
    ELSE RoundDyadic(a.neg # b.neg, BMul(a.m, b.m), a.e + b.e)

\* a / b.
NumDiv(a, b) ==
    IF IsNaN(a) \/ IsNaN(b) THEN NaN
    ELSE IF a.c = "inf" THEN (IF b.c = "inf" THEN NaN ELSE Inf(a.neg # b.neg))
    ELSE IF b.c = "inf" THEN Zero(a.neg # b.neg)
    ELSE IF IsZero(b) THEN (IF IsZero(a) THEN NaN ELSE Inf(a.neg # b.neg))
    ELSE IF IsZero(a) THEN Zero(a.neg # b.neg)
    ELSE RoundRatio(a.neg # b.neg, a.m, b.m, a.e - b.e)

\* Math.max(a, b) of two numbers: NaN when one is, +0 above -0.
MathMax(a, b) ==
    IF IsNaN(a) \/ IsNaN(b) THEN NaN
    ELSE LET c == NumCmp(a, b)
         IN  IF c > 0 THEN a ELSE IF c < 0 THEN b ELSE IF a.neg THEN b ELSE a
---------------------------------------------------------------------------
(* Number::toString and the reading of decimal numerals.  A string is a    *)
(* sequence of UTF-16 code units.                                          *)

RECURSIVE NatDigits(_)
\* The decimal digits of a natural number of the model's integers.
NatDigits(k) ==
    IF k < 10 THEN <<48 + k>> ELSE Append(NatDigits(k \div 10), 48 + (k % 10))

\* The digits (0..9) that code units write.
DigitValues(cs) == [i \in 1..Len(cs) |-> cs[i] - 48]

RECURSIVE BDigits(_)
\* The decimal digits (0..9) of a natural number a # 0.
BDigits(a) ==
    IF a = <<>> THEN <<>>
    ELSE IF Len(a) <= 2 THEN DigitValues(NatDigits(BToInt(a)))
    ELSE Append(BDigits(BDivSmall(a, 10).q), BDivSmall(a, 10).r)

\* The digits without the zeros at their end.
RECURSIVE DropZeros(_)
DropZeros(ds) ==
    IF ds # <<>> /\ ds[Len(ds)] = 0 THEN DropZeros(SubSeq(ds, 1, Len(ds) - 1)) ELSE ds

\* r + mp reaches s: the interval of the decimals that read back as the
\* double holds its upper end when the double's mantissa is even.
High(r, s, mp, even) ==
    IF even THEN BCmp(BAdd(r, mp), s) >= 0 ELSE BCmp(BAdd(r, mp), s) > 0

RECURSIVE Generate(_, _, _, _, _, _)
\* The digits that follow acc, for the remainder r of the scaled value over
\* s and the scaled half-gaps mp above and mm below.
Generate(r, s, mp, mm, even, acc) ==
    LET d   == QuotLimb(BMulSmall(r, 10), s, 0, 9)
        rem == BSub(BMulSmall(r, 10), BMulSmall(s, d))
        low == IF even THEN BCmp(rem, BMulSmall(mm, 10)) <= 0
               ELSE BCmp(rem, BMulSmall(mm, 10)) < 0
        high == High(rem, s, BMulSmall(mp, 10), even)
    IN  IF ~low /\ ~high
        THEN Generate(rem, s, BMulSmall(mp, 10), BMulSmall(mm, 10), even, Append(acc, d))
        ELSE IF low /\ ~high THEN Append(acc, d)
        ELSE IF high /\ ~low THEN Append(acc, d + 1)
        ELSE IF BCmp(BShl(rem, 1), s) < 0 THEN Append(acc, d) ELSE Append(acc, d + 1)

RECURSIVE ScaleDown(_, _, _, _, _, _)
\* The digits and the decimal exponent n (the value is 0.d1d2... * 10^n),
\* once the scaled value is below 1 and at least 1/10.
ScaleDown(r, s, mp, mm, even, n) ==
    IF High(BMulSmall(r, 10), s, BMulSmall(mp, 10), even)
    THEN [digits |-> Generate(r, s, mp, mm, even, <<>>), n |-> n]
    ELSE ScaleDown(BMulSmall(r, 10), s, BMulSmall(mp, 10), BMulSmall(mm, 10), even, n - 1)

RECURSIVE ScaleUp(_, _, _, _, _, _)
ScaleUp(r, s, mp, mm, even, n) ==
    IF High(r, s, mp, even) THEN ScaleUp(r, BMulSmall(s, 10), mp, mm, even, n + 1)
    ELSE ScaleDown(r, s, mp, mm, even, n)

\* floor(a * 30103 / 100000), about a * log10(2), for an integer a.
Log10Of2Times(a) ==
    IF a >= 0 THEN (a * 30103) \div 100000
    ELSE -(((-a) * 30103 + 99999) \div 100000)

\* The scaling by the power of ten n the bit length suggests.
ScaleBy(r, s, mp, mm, even, n) ==
    LET p == BPow(10, Abs(n))
    IN  ScaleUp(IF n >= 0 THEN r ELSE BMul(r, p),
                IF n >= 0 THEN BMul(s, p) ELSE s,
                IF n >= 0 THEN mp ELSE BMul(mp, p),
                IF n >= 0 THEN mm ELSE BMul(mm, p),
                even, n)

\* The shortest digits for the double f * 2^ef of bit length top, f its
\* 53-bit mantissa; narrow when the double below is nearer than that above.
ShortestOf(f, ef, narrow, top) ==
    LET k  == IF narrow THEN 2 ELSE 1
        up == IF ef >= 0 THEN ef ELSE 0
    IN  ScaleBy(BShl(f, up + k), BShl(<<1>>, k + up - ef),
                BShl(<<1>>, up + k - 1), BShl(<<1>>, up),
                ~BIsOdd(f), Log10Of2Times(top - 1))

\* The digits of the shortest decimal that reads back as m * 2^e, and its
\* decimal exponent.
Shortest(m, e) ==
    IF e = 0 THEN [digits |-> DropZeros(BDigits(m)), n |-> Len(BDigits(m))]
    ELSE LET normal == BBitLen(m) + e - 1 >= -1022
             ef == IF normal THEN e - (53 - BBitLen(m)) ELSE -1074
         IN  ShortestOf(BShl(m, e - ef), ef,
                        normal /\ m = <<1>> /\ e - 52 > -1074, BBitLen(m) + e)

\* The code units of digits (0..9).
DigitChars(ds) == [i \in 1..Len(ds) |-> 48 + ds[i]]

Zeros(k) == [i \in 1..k |-> 48]

\* The text of the digits ds with the decimal exponent n.
DecimalText(ds, n) ==
    IF Len(ds) <= n /\ n <= 21 THEN DigitChars(ds) \o Zeros(n - Len(ds))
    ELSE IF 0 < n /\ n <= 21
         THEN DigitChars(SubSeq(ds, 1, n)) \o <<46>> \o DigitChars(SubSeq(ds, n + 1, Len(ds)))
    ELSE IF -6 < n /\ n <= 0 THEN <<48, 46>> \o Zeros(-n) \o DigitChars(ds)
    ELSE DigitChars(<<ds[1]>>)
         \o (IF Len(ds) = 1 THEN <<>> ELSE <<46>> \o DigitChars(Tail(ds)))
         \o <<101, IF n - 1 < 0 THEN 45 ELSE 43>> \o NatDigits(Abs(n - 1))

ShortestText(sd) == DecimalText(sd.digits, sd.n)

\* Number::toString(v).
NumberToString(v) ==
    IF v.c = "nan" THEN <<78, 97, 78>>
    ELSE IF v.c = "inf"
         THEN (IF v.neg THEN <<45>> ELSE <<>>) \o <<73, 110, 102, 105, 110, 105, 116, 121>>
    ELSE IF v.m = <<>> THEN <<48>>
    ELSE (IF v.neg THEN <<45>> ELSE <<>>) \o ShortestText(Shortest(v.m, v.e))

RECURSIVE BOfRadix(_, _)
\* The natural number the digits ds write in a radix.
BOfRadix(ds, radix) ==
    IF Len(ds) = 0 THEN <<>>
    ELSE IF Len(ds) = 1 THEN BOf(ds[1])
    ELSE LET h == Len(ds) \div 2
         IN  BAdd(BMul(BOfRadix(SubSeq(ds, 1, h), radix), BPow(radix, Len(ds) - h)),
                  BOfRadix(SubSeq(ds, h + 1, Len(ds)), radix))

BOfDigits(ds) == BOfRadix(ds, 10)

RECURSIVE DropLeadingZeros(_)
DropLeadingZeros(ds) ==
    IF ds # <<>> /\ ds[1] = 0 THEN DropLeadingZeros(Tail(ds)) ELSE ds

\* The double nearest to (-1)^neg * 0.d1d2... * 10^n for digits that do not
\* begin with 0.
DecimalOf(neg, ds, n) ==
    IF ds = <<>> THEN Zero(neg)
    ELSE IF n > 310 THEN Inf(neg)
    ELSE IF n < -330 THEN Zero(neg)
    ELSE LET whole == BOfDigits(ds)
             p == BPow(10, Abs(n - Len(ds)))
         IN  RoundRatio(neg, IF n >= Len(ds) THEN BMul(whole, p) ELSE whole,
                        IF n >= Len(ds) THEN <<1>> ELSE p, 0)

\* The double nearest to (-1)^neg * (the digits ds as a whole number) * 10^x.
DecimalToDouble(neg, ds, x) ==
    DecimalOf(neg, DropZeros(DropLeadingZeros(ds)),
              x + Len(DropLeadingZeros(ds)))

---------------------------------------------------------------------------
(* Characters, UTF-8 and percent-escapes *)

\* The printable ASCII characters, code 32 first (the grave accent, code
\* 96, by its name).
AsciiChars ==
    << " ", "!", "\"", "#", "$", "%", "&", "'", "(", ")", "*", "+", ",", "-",
       ".", "/", "0", "1", "2", "3", "4", "5", "6", "7", "8", "9", ":", ";",
       "<", "=", ">", "?", "@", "A", "B", "C", "D", "E", "F", "G", "H", "I",
       "J", "K", "L", "M", "N", "O", "P", "Q", "R", "S", "T", "U", "V", "W",
       "X", "Y", "Z", "[", "\\", "]", "^", "_", "u0060", "a", "b", "c", "d", "e",
       "f", "g", "h", "i", "j", "k", "l", "m", "n", "o", "p", "q", "r", "s",
       "t", "u", "v", "w", "x", "y", "z", "{", "|", "}", "~" >>

\* The code unit of an ASCII character.
CharCode(c) == 31 + (CHOOSE i \in 1..Len(AsciiChars) : AsciiChars[i] = c)

\* The string of the ASCII characters cs.
Lit(cs) == [i \in 1..Len(cs) |-> CharCode(cs[i])]

Digits   == 48..57
Alpha    == (65..90) \cup (97..122)
HexChars == Digits \cup (65..70) \cup (97..102)
HexUpper == <<48, 49, 50, 51, 52, 53, 54, 55, 56, 57, 65, 66, 67, 68, 69, 70>>
HexLower == <<48, 49, 50, 51, 52, 53, 54, 55, 56, 57, 97, 98, 99, 100, 101, 102>>

\* The value of a hexadecimal digit.
HexVal(code) ==
    IF code <= 57 THEN code - 48 ELSE IF code >= 97 THEN code - 87 ELSE code - 55

\* The code unit at position i, -1 outside the string.
At(s, i) == IF i >= 1 /\ i <= Len(s) THEN s[i] ELSE -1

IsHigh(u) == u >= 55296 /\ u <= 56319
IsLow(u)  == u >= 56320 /\ u <= 57343

\* A surrogate at position i that is not half of a pair.
Lone(s, i) ==
    \/ IsHigh(s[i]) /\ ~IsLow(At(s, i + 1))
    \/ IsLow(s[i]) /\ ~IsHigh(At(s, i - 1))

\* The UTF-8 bytes of a code point.
Utf8(code) ==
    IF code < 128 THEN <<code>>
    ELSE IF code < 2048 THEN <<192 + (code \div 64), 128 + (code % 64)>>
    ELSE IF code < 65536
         THEN <<224 + (code \div 4096), 128 + ((code \div 64) % 64), 128 + (code % 64)>>
    ELSE <<240 + (code \div 262144), 128 + ((code \div 4096) % 64),
           128 + ((code \div 64) % 64), 128 + (code % 64)>>

\* The code units of a code point.
Utf16(code) ==
    IF code < 65536 THEN <<code>>
    ELSE <<55296 + ((code - 65536) \div 1024), 56320 + ((code - 65536) % 1024)>>

\* The UTF-8 bytes position i of s gives: those of the pair's code point at
\* its first half, none at its second, those of U+FFFD at a lone surrogate.
BytesAt(s, i) ==
    IF IsLow(s[i]) /\ IsHigh(At(s, i - 1)) THEN <<>>
    ELSE IF IsHigh(s[i]) /\ IsLow(At(s, i + 1))
         THEN Utf8(65536 + (s[i] - 55296) * 1024 + (s[i + 1] - 56320))
    ELSE IF IsHigh(s[i]) \/ IsLow(s[i]) THEN Utf8(65533)
    ELSE Utf8(s[i])

PercentByte(b) == <<37, HexUpper[(b \div 16) + 1], HexUpper[(b % 16) + 1]>>

PercentBytes(bs) == Flatten([j \in 1..Len(bs) |-> PercentByte(bs[j])])

\* The length of the UTF-8 sequence a lead byte opens, 0 for no lead byte.
SeqLen(b) ==
    IF b < 128 THEN 1
    ELSE IF b >= 194 /\ b <= 223 THEN 2
    ELSE IF b >= 224 /\ b <= 239 THEN 3
    ELSE IF b >= 240 /\ b <= 244 THEN 4
    ELSE 0

\* Whether the item k places after the lead byte at i continues its sequence:
\* the byte after E0, ED, F0 and F4 in the narrower range that leaves out
\* overlong forms, surrogates and code points above U+10FFFF.
Continues(items, i, k) ==
    /\ i + k <= Len(items)
    /\ items[i + k] >= (IF k > 1 THEN 128 ELSE IF items[i] = 224 THEN 160
                        ELSE IF items[i] = 240 THEN 144 ELSE 128)
    /\ items[i + k] <= (IF k > 1 THEN 191 ELSE IF items[i] = 237 THEN 159
                        ELSE IF items[i] = 244 THEN 143 ELSE 191)

\* How many items after the lead byte at i continue its sequence.
Run(items, i) ==
    Greatest({m \in 0..(SeqLen(items[i]) - 1) : \A k \in 1..m : Continues(items, i, k)})

IsLead(b) == b >= 194 /\ b <= 244

\* The positions a sequence takes after its lead byte.
Consumed(items) ==
    {j \in 1..Len(items) : \E k \in 1..3 :
        /\ j - k >= 1
        /\ IsLead(items[j - k])
        /\ k <= Run(items, j - k)}

\* Whether a whole sequence starts at position i.
Complete(items, i) == IsLead(items[i]) /\ Run(items, i) = SeqLen(items[i]) - 1

\* The code point of the whole sequence at position i.
CodeAt(bytes, i) ==
    IF SeqLen(bytes[i]) = 2 THEN (bytes[i] - 192) * 64 + (bytes[i + 1] - 128)
    ELSE IF SeqLen(bytes[i]) = 3
         THEN (bytes[i] - 224) * 4096 + (bytes[i + 1] - 128) * 64 + (bytes[i + 2] - 128)
    ELSE (bytes[i] - 240) * 262144 + (bytes[i + 1] - 128) * 4096
         + (bytes[i + 2] - 128) * 64 + (bytes[i + 3] - 128)

\* The decoding of items, each a byte (0..255) or 256 + a code unit that
\* stands for itself, given the positions sequences take after their lead
\* bytes.  ok is FALSE when some byte is part of no whole sequence; U+FFFD
\* then stands for each lead byte with the part of a sequence after it, and
\* for each other such byte.
DecodeItems(items, consumed) ==
    [ok |-> \A i \in (1..Len(items)) \ consumed :
                items[i] < 128 \/ items[i] >= 256 \/ Complete(items, i),
     s |-> Flatten([i \in 1..Len(items) |->
               IF i \in consumed THEN <<>>
               ELSE IF items[i] >= 256 THEN <<items[i] - 256>>
               ELSE IF items[i] < 128 THEN <<items[i]>>
               ELSE IF Complete(items, i) THEN Utf16(CodeAt(items, i))
               ELSE <<65533>>])]

Utf8Decode(items) ==
    DecodeItems(items, IF \A i \in 1..Len(items) : items[i] < 128 \/ items[i] >= 256
                       THEN {} ELSE Consumed(items))

\* The positions of s at which a percent-escape starts.
Escapes(s) ==
    {i \in 1..Len(s) : /\ s[i] = 37 /\ i + 2 <= Len(s)
                        /\ s[i + 1] \in HexChars /\ s[i + 2] \in HexChars}

\* The byte of two hexadecimal digits.
HexByte(hi, lo) == 16 * hi + lo

\* The items of s, esc being where its percent-escapes start: the byte of
\* each escape, and Other(s, i) for a position i outside the escapes.
Unescaped(s, esc, Other(_, _)) ==
    Flatten([i \in 1..Len(s) |->
        IF (i - 1) \in esc \/ (i - 2) \in esc THEN <<>>
        ELSE IF i \in esc THEN <<HexByte(HexVal(s[i + 1]), HexVal(s[i + 2]))>>
        ELSE Other(s, i)])

Itself(s, i) == <<256 + s[i]>>

\* The characters encodeURIComponent leaves alone: the letters, the digits
\* and - _ . ! ~ * ' ( ).
UriUnreserved == Alpha \cup Digits \cup {45, 95, 46, 33, 126, 42, 39, 40, 41}

\* encodeURIComponent(s): [ok |-> FALSE] is URIError, thrown for a lone
\* surrogate.
encodeURIComponent(s) ==
    IF \E i \in 1..Len(s) : Lone(s, i) THEN [ok |-> FALSE, s |-> <<>>]
    ELSE [ok |-> TRUE,
          s |-> Flatten([i \in 1..Len(s) |->
                    IF s[i] \in UriUnreserved THEN <<s[i]>>
                    ELSE IF s[i] < 128 THEN PercentByte(s[i])
                    ELSE PercentBytes(BytesAt(s, i))])]

DecodedOr(ok, u) ==
    IF ok /\ u.ok THEN [ok |-> TRUE, s |-> u.s] ELSE [ok |-> FALSE, s |-> <<>>]

DecodeEscaped(s, esc) ==
    DecodedOr(\A i \in 1..Len(s) : s[i] = 37 => i \in esc,
              Utf8Decode(Unescaped(s, esc, Itself)))

\* decodeURIComponent(s): [ok |-> FALSE] is URIError, thrown for a "%" that
\* two hexadecimal digits do not follow and for escapes that are not the
\* UTF-8 form of a code point.
decodeURIComponent(s) ==
    IF \A i \in 1..Len(s) : s[i] # 37 THEN [ok |-> TRUE, s |-> s]
    ELSE DecodeEscaped(s, Escapes(s))

---------------------------------------------------------------------------
(* JavaScript values *)

Undefined == [t |-> "undefined"]
Null      == [t |-> "null"]
Bool(b)   == [t |-> "bool", b |-> b]
Str(s)    == [t |-> "str", s |-> s]
Arr(a)    == [t |-> "arr", a |-> a]
Obj(o)    == [t |-> "obj", o |-> o]

IsNum(v) == v.t = "num"
IsStr(v) == v.t = "str"
IsArr(v) == v.t = "arr"
IsObj(v) == v.t = "obj"

\* Whether a property key is an array index: the canonical decimal of a
\* whole number up to 2^32 - 2.
IsIndexKey(k) ==
    /\ k # <<>> /\ Len(k) <= 10
    /\ \A i \in 1..Len(k) : k[i] \in Digits
    /\ (k[1] = 48 => Len(k) = 1)
    /\ (Len(k) = 10 =>
          LET top  == <<52, 50, 57, 52, 57, 54, 55, 50, 57, 52>>
              diff == {i \in 1..10 : k[i] # top[i]}
          IN  diff = {} \/ k[Least(diff)] < top[Least(diff)])

\* Whether the index key a is below the index key b.
IndexBelow(a, b) ==
    IF Len(a) # Len(b) THEN Len(a) < Len(b)
    ELSE LET diff == {i \in 1..Len(a) : a[i] # b[i]}
         IN  diff # {} /\ a[Least(diff)] < b[Least(diff)]

\* o.k for an object o: the property's value, undefined when absent.
Get(obj, key) ==
    LET hits == {i \in 1..Len(obj.o) : obj.o[i].k = key}
    IN  IF hits = {} THEN Undefined ELSE obj.o[Least(hits)].v

\* The properties props with one more at position i.
InsertAt(props, i, p) ==
    SubSeq(props, 1, i - 1) \o <<p>> \o SubSeq(props, i, Len(props))

\* Where a new property key goes among props, which are in the order own
\* properties are listed: the array indices ascending, then the others as
\* they were created.
PlaceOf(props, key) ==
    IF IsIndexKey(key)
    THEN Least({i \in 1..(Len(props) + 1) :
                  i = Len(props) + 1 \/ ~IsIndexKey(props[i].k)
                  \/ IndexBelow(key, props[i].k)})
    ELSE Len(props) + 1

\* o with property key set to val: in place when present, created when not.
Put(obj, key, val) ==
    LET hits == {i \in 1..Len(obj.o) : obj.o[i].k = key}
    IN  IF hits = {}
        THEN Obj(InsertAt(obj.o, PlaceOf(obj.o, key), [k |-> key, v |-> val]))
        ELSE Obj([obj.o EXCEPT ![Least(hits)] = [k |-> key, v |-> val]])

---------------------------------------------------------------------------
(* JSON.stringify and JSON.parse *)

S_null  == Lit(<<"n", "u", "l", "l">>)
S_true  == Lit(<<"t", "r", "u", "e">>)
S_false == Lit(<<"f", "a", "l", "s", "e">>)

\* \uXXXX of a code unit, in lower-case hexadecimal digits.
UnicodeEscape(u) ==
    <<92, 117, HexLower[(u \div 4096) + 1], HexLower[((u \div 256) % 16) + 1],
      HexLower[((u \div 16) % 16) + 1], HexLower[(u % 16) + 1]>>

\* What QuoteJSONString writes for the code unit at position i.
QuotedAt(s, i) ==
    IF s[i] = 8 THEN <<92, 98>>
    ELSE IF s[i] = 9 THEN <<92, 116>>
    ELSE IF s[i] = 10 THEN <<92, 110>>
    ELSE IF s[i] = 12 THEN <<92, 102>>
    ELSE IF s[i] = 13 THEN <<92, 114>>
    ELSE IF s[i] = 34 THEN <<92, 34>>
    ELSE IF s[i] = 92 THEN <<92, 92>>
    ELSE IF s[i] < 32 \/ Lone(s, i) THEN UnicodeEscape(s[i])
    ELSE <<s[i]>>

\* QuoteJSONString: the string between quotes, with its quotes, backslashes,
\* control characters and lone surrogates escaped.
QuoteJSONString(s) ==
    IF \A i \in 1..Len(s) : s[i] >= 32 /\ s[i] < 55296 /\ s[i] # 34 /\ s[i] # 92
    THEN <<34>> \o s \o <<34>>
    ELSE <<34>> \o Flatten([i \in 1..Len(s) |-> QuotedAt(s, i)]) \o <<34>>

\* The strings of ss joined by commas.
JoinComma(ss) ==
    Flatten([i \in 1..Len(ss) |-> IF i = 1 THEN ss[i] ELSE <<44>> \o ss[i]])

RECURSIVE JSON_stringify(_)
\* JSON.stringify(v) for a value that is not undefined: an object's properties
\* whose value is undefined are left out, an array's undefined elements are
\* written null, and so is a number that is not finite.
JSON_stringify(v) ==
    CASE v.t = "null" -> S_null
      [] v.t = "undefined" -> S_null
      [] v.t = "bool" -> IF v.b THEN S_true ELSE S_false
      [] v.t = "num" -> IF IsFinite(v) THEN NumberToString(v) ELSE S_null
      [] v.t = "str" -> QuoteJSONString(v.s)
      [] v.t = "arr" ->
            <<91>> \o JoinComma([i \in 1..Len(v.a) |-> JSON_stringify(v.a[i])])
            \o <<93>>
      [] v.t = "obj" ->
            LET kept == KeepIndices(v.o, {i \in 1..Len(v.o) : v.o[i].v.t # "undefined"})
            IN  <<123>>
                \o JoinComma([i \in 1..Len(kept) |->
                      QuoteJSONString(kept[i].k) \o <<58>> \o JSON_stringify(kept[i].v)])
                \o <<125>>

\* A parse step's result: the value and the position after it, or a failure.
Parsed(v, i) == [ok |-> TRUE, v |-> v, i |-> i]
NoParse == [ok |-> FALSE, v |-> Undefined, i |-> 0]

\* JSON white space: space, tab, line feed and carriage return.
JsonWs == {32, 9, 10, 13}

\* The first position >= i that holds no white space (Len(s) + 1 at the end).
SkipWs(s, i) ==
    IF At(s, i) \notin JsonWs THEN i
    ELSE LET rest == {j \in i..Len(s) : s[j] \notin JsonWs}
         IN  IF rest = {} THEN Len(s) + 1 ELSE Least(rest)

\* The end of the run of digits that starts at i: the position after it.
DigitsEnd(s, i) ==
    LET stop == {j \in i..Len(s) : s[j] \notin Digits}
    IN  IF stop = {} THEN Len(s) + 1 ELSE Least(stop)

\* The values 0..9 of the digits at the positions from..to of s.
DigitsOf(s, from, to) == [i \in 1..(to - from + 1) |-> s[from + i - 1] - 48]

RECURSIVE SmallValue(_)
SmallValue(ds) ==
    IF ds = <<>> THEN 0 ELSE 10 * SmallValue(SubSeq(ds, 1, Len(ds) - 1)) + ds[Len(ds)]

\* The exponent the digits ds write, or 99999 when it is more.
ExponentValue(ds) ==
    IF Len(DropLeadingZeros(ds)) > 5 THEN 99999 ELSE SmallValue(DropLeadingZeros(ds))

\* The number of a numeral: its sign, the digits before and after the point
\* and the exponent.
NumeralValue(neg, ip, fp, x) == DecimalToDouble(neg, ip \o fp, x - Len(fp))

\* The number read with integer digits s[i0..i1-1], fraction digits
\* s[i1+1..i2-1] when there is a point at i1 (i2 = i1 when not), the
\* exponent's digits at i3..i4-1 when i3 > 0, ending before position i4.
NumberValue(s, neg, i0, i1, i2, xneg, i3, i4) ==
    IF \/ i1 = i0
       \/ (i1 - i0 > 1 /\ s[i0] = 48)
       \/ (i2 > i1 /\ i2 = i1 + 1)
       \/ (i3 > 0 /\ i4 = i3)
    THEN NoParse
    ELSE Parsed(NumeralValue(neg, DigitsOf(s, i0, i1 - 1),
                             IF i2 > i1 THEN DigitsOf(s, i1 + 1, i2 - 1) ELSE <<>>,
                             IF i3 = 0 THEN 0
                             ELSE (IF xneg THEN -1 ELSE 1)
                                  * ExponentValue(DigitsOf(s, i3, i4 - 1))),
                i4)

\* The exponent part, if any, at position i2.
NumberExp(s, neg, i0, i1, i2) ==
    IF At(s, i2) \in {101, 69}
    THEN LET i3 == IF At(s, i2 + 1) \in {43, 45} THEN i2 + 2 ELSE i2 + 1
         IN  NumberValue(s, neg, i0, i1, i2, At(s, i2 + 1) = 45, i3, DigitsEnd(s, i3))
    ELSE NumberValue(s, neg, i0, i1, i2, FALSE, 0, i2)

NumberInt(s, neg, i0, i1) ==
    NumberExp(s, neg, i0, i1, IF At(s, i1) = 46 THEN DigitsEnd(s, i1 + 1) ELSE i1)

\* A JSON number at position i: -? int frac? exp?
ParseNumber(s, i) ==
    NumberInt(s, At(s, i) = 45, IF At(s, i) = 45 THEN i + 1 ELSE i,
              DigitsEnd(s, IF At(s, i) = 45 THEN i + 1 ELSE i))

\* The code unit an escape of one character stands for, -1 for none.
EscapeOf(e) ==
    IF e \in {34, 92, 47} THEN e
    ELSE IF e = 98 THEN 8
    ELSE IF e = 102 THEN 12
    ELSE IF e = 110 THEN 10
    ELSE IF e = 114 THEN 13
    ELSE IF e = 116 THEN 9
    ELSE -1

RECURSIVE ParseStringBody(_, _, _)
\* The rest of a JSON string from position i, acc being what was read of it:
\* up to the next quote, backslash or control character j.
ParseStringBody(s, i, acc) ==
    LET j == IndexOf(s, (0..31) \cup {34, 92}, i)
    IN  IF j = 0 \/ s[j] < 32 THEN NoParse
        ELSE IF s[j] = 34 THEN Parsed(Str(acc \o Slice(s, i, j - 1)), j + 1)
        ELSE IF EscapeOf(At(s, j + 1)) >= 0
             THEN ParseStringBody(s, j + 2,
                      acc \o Slice(s, i, j - 1) \o <<EscapeOf(At(s, j + 1))>>)
        ELSE IF At(s, j + 1) = 117 /\ \A k \in 2..5 : At(s, j + k) \in HexChars
             THEN ParseStringBody(s, j + 6,
                      acc \o Slice(s, i, j - 1)
                      \o <<4096 * HexVal(s[j + 2]) + 256 * HexVal(s[j + 3])
                           + 16 * HexVal(s[j + 4]) + HexVal(s[j + 5])>>)
        ELSE NoParse

ParseWord(s, i, word, v) ==
    IF Slice(s, i, i + Len(word) - 1) = word THEN Parsed(v, i + Len(word)) ELSE NoParse

RECURSIVE ParseValue(_, _), ParseElements(_, _, _), ElementsAfter(_, _, _),
          ElementsNext(_, _, _), ParseMembers(_, _, _), MemberAfterKey(_, _, _),
          MemberColon(_, _, _, _), MemberAfterValue(_, _, _, _), MembersNext(_, _, _)

\* A JSON value at position i.
ParseValue(s, i) ==
    LET c == At(s, i)
    IN  CASE c = 34 -> ParseStringBody(s, i + 1, <<>>)
          [] c = 91 ->
                IF At(s, SkipWs(s, i + 1)) = 93
                THEN Parsed(Arr(<<>>), SkipWs(s, i + 1) + 1)
                ELSE ParseElements(s, SkipWs(s, i + 1), <<>>)
          [] c = 123 ->
                IF At(s, SkipWs(s, i + 1)) = 125
                THEN Parsed(Obj(<<>>), SkipWs(s, i + 1) + 1)
                ELSE ParseMembers(s, SkipWs(s, i + 1), Obj(<<>>))
          [] c = 110 -> ParseWord(s, i, S_null, Null)
          [] c = 116 -> ParseWord(s, i, S_true, Bool(TRUE))
          [] c = 102 -> ParseWord(s, i, S_false, Bool(FALSE))
          [] c \in Digits \cup {45} -> ParseNumber(s, i)
          [] OTHER -> NoParse

\* The elements of an array from position i, acc being those read.
ParseElements(s, i, acc) == ElementsAfter(s, acc, ParseValue(s, i))

ElementsAfter(s, acc, r) ==
    IF ~r.ok THEN NoParse ELSE ElementsNext(s, Append(acc, r.v), SkipWs(s, r.i))

ElementsNext(s, acc, j) ==
    IF At(s, j) = 44 THEN ParseElements(s, SkipWs(s, j + 1), acc)
    ELSE IF At(s, j) = 93 THEN Parsed(Arr(acc), j + 1)
    ELSE NoParse

\* The members of an object from position i, acc being the object read so
\* far (a repeated key keeps its place and takes the later value).
ParseMembers(s, i, acc) ==
    IF At(s, i) # 34 THEN NoParse
    ELSE MemberAfterKey(s, acc, ParseStringBody(s, i + 1, <<>>))

MemberAfterKey(s, acc, k) ==
    IF ~k.ok THEN NoParse ELSE MemberColon(s, acc, k.v.s, SkipWs(s, k.i))

MemberColon(s, acc, key, c) ==
    IF At(s, c) # 58 THEN NoParse
    ELSE MemberAfterValue(s, acc, key, ParseValue(s, SkipWs(s, c + 1)))

MemberAfterValue(s, acc, key, r) ==
    IF ~r.ok THEN NoParse ELSE MembersNext(s, Put(acc, key, r.v), SkipWs(s, r.i))

MembersNext(s, acc, j) ==
    IF At(s, j) = 44 THEN ParseMembers(s, SkipWs(s, j + 1), acc)
    ELSE IF At(s, j) = 125 THEN Parsed(acc, j + 1)
    ELSE NoParse

\* The value read, when nothing but white space follows it.
WholeValue(s, r) ==
    IF r.ok /\ SkipWs(s, r.i) = Len(s) + 1 THEN [ok |-> TRUE, v |-> r.v]
    ELSE [ok |-> FALSE, v |-> Undefined]

\* JSON.parse(s): [ok |-> FALSE] is SyntaxError.
JSON_parse(s) == WholeValue(s, ParseValue(s, SkipWs(s, 1)))

---------------------------------------------------------------------------
(* Conversions between values *)

S_undefined == Lit(<<"u", "n", "d", "e", "f", "i", "n", "e", "d">>)
S_object    == Lit(<<"[", "o", "b", "j", "e", "c", "t", " ", "O", "b", "j", "e", "c", "t", "]">>)
S_Infinity  == Lit(<<"I", "n", "f", "i", "n", "i", "t", "y">>)

\* White space and line terminators, as trim, parseInt and Number skip them.
StrWs == {9, 10, 11, 12, 13, 32, 160, 5760, 8232, 8233, 8239, 8287, 12288, 65279}
         \cup (8192..8202)

\* s.trim().
Trim(s) ==
    LET ink == {i \in 1..Len(s) : s[i] \notin StrWs}
    IN  IF ink = {} THEN <<>> ELSE SubSeq(s, Least(ink), Greatest(ink))

\* Whether a value is truthy.
Truthy(v) ==
    CASE v.t = "undefined" -> FALSE
      [] v.t = "null" -> FALSE
      [] v.t = "bool" -> v.b
      [] v.t = "num" -> ~IsNaN(v) /\ ~IsZero(v)
      [] v.t = "str" -> v.s # <<>>
      [] OTHER -> TRUE

S_toString == Lit(<<"t", "o", "S", "t", "r", "i", "n", "g">>)

\* What a conversion that throws a TypeError gives.
TypeError == [t |-> "throw"]

RECURSIVE ConvThrows(_)
\* Converting v to a string or a number throws a TypeError: v is an object
\* with a property toString of its own, which is no function (the inherited
\* valueOf gives the object back), or an array whose join meets such an
\* element.
ConvThrows(v) ==
    CASE v.t = "obj" -> \E i \in 1..Len(v.o) : v.o[i].k = S_toString
      [] v.t = "arr" -> \E i \in 1..Len(v.a) : ConvThrows(v.a[i])
      [] OTHER -> FALSE

RECURSIVE StringOf(_)
\* String(v) of a value whose conversion returns: an array is its elements
\* joined by commas, null and undefined among them empty.
StringOf(v) ==
    CASE v.t = "num" -> NumberToString(v)
      [] v.t = "str" -> v.s
      [] v.t = "null" -> S_null
      [] v.t = "undefined" -> S_undefined
      [] v.t = "bool" -> IF v.b THEN S_true ELSE S_false
      [] v.t = "arr" ->
            JoinComma([i \in 1..Len(v.a) |->
                          IF v.a[i].t \in {"null", "undefined"} THEN <<>>
                          ELSE StringOf(v.a[i])])
      [] OTHER -> S_object

\* String(v), also the property key a value is used as: its code units, or
\* TypeError.
ToStr(v) == IF ConvThrows(v) THEN TypeError ELSE StringOf(v)

\* The end of the run of code units of ok that starts at i.
RunEnd(s, i, ok) ==
    LET stop == {j \in i..Len(s) : s[j] \notin ok}
    IN  IF stop = {} THEN Len(s) + 1 ELSE Least(stop)

\* The digits of a radix.
RadixDigits(radix) ==
    {c \in HexChars : HexVal(c) < radix}

\* The number the digits s[from..to] of a radix write.
RadixNumber(s, neg, from, to, radix) ==
    RoundDyadic(neg, BOfRadix(DropLeadingZeros([i \in 1..(to - from + 1) |->
                                                    HexVal(s[from + i - 1])]), radix), 0)

IntDigits(s, radix, neg, i2, i3) ==
    IF i3 = i2 THEN NaN ELSE RadixNumber(s, neg, i2, i3 - 1, radix)

IntAfterPrefix(s, radix, neg, i2) ==
    IntDigits(s, radix, neg, i2, RunEnd(s, i2, RadixDigits(radix)))

IntAfterSign(s, radix, neg, i1) ==
    IF radix \in {0, 16} /\ At(s, i1) = 48 /\ At(s, i1 + 1) \in {120, 88}
    THEN IntAfterPrefix(s, 16, neg, i1 + 2)
    ELSE IntAfterPrefix(s, IF radix = 0 THEN 10 ELSE radix, neg, i1)

IntAfterWs(s, radix, i0) ==
    IntAfterSign(s, radix, At(s, i0) = 45, IF At(s, i0) \in {45, 43} THEN i0 + 1 ELSE i0)

\* parseInt(s, radix), radix 0 standing for none given: white space is
\* skipped, a sign is taken, a leading 0x makes the radix 16 when none or 16
\* was given, then the longest run of digits of the radix is read.  NaN when
\* that run is empty.
ParseInt(s, radix) == IntAfterWs(s, radix, RunEnd(s, 1, StrWs))

\* The number a decimal literal writes from position i0 of t to its end,
\* after its sign: digits, a point, digits and an exponent part, with a
\* digit before or after the point.
DecimalLiteral(t, neg, i0, i1, i2) ==
    LET hasExp == At(t, i2) \in {101, 69}
        i3 == IF ~hasExp THEN 0 ELSE IF At(t, i2 + 1) \in {43, 45} THEN i2 + 2 ELSE i2 + 1
        i4 == IF hasExp THEN DigitsEnd(t, i3) ELSE i2
    IN  IF \/ i4 # Len(t) + 1
           \/ (i1 = i0 /\ i2 <= i1 + 1)
           \/ (hasExp /\ i4 = i3)
        THEN NaN
        ELSE NumeralValue(neg, DigitsOf(t, i0, i1 - 1),
                          IF i2 > i1 THEN DigitsOf(t, i1 + 1, i2 - 1) ELSE <<>>,
                          IF hasExp
                          THEN (IF At(t, i2 + 1) = 45 THEN -1 ELSE 1)
                               * ExponentValue(DigitsOf(t, i3, i4 - 1))
                          ELSE 0)

DecimalFrom(t, neg, i0, i1) ==
    DecimalLiteral(t, neg, i0, i1, IF At(t, i1) = 46 THEN DigitsEnd(t, i1 + 1) ELSE i1)

\* The number a literal of radix 2, 8 or 16 writes after its prefix.
PrefixedLiteral(t, radix) ==
    IF Len(t) > 2 /\ RunEnd(t, 3, RadixDigits(radix)) = Len(t) + 1
    THEN RadixNumber(t, FALSE, 3, Len(t), radix) ELSE NaN

\* The number of a trimmed string.
TrimmedToNumber(t) ==
    IF t = <<>> THEN Zero(FALSE)
    ELSE IF t = S_Infinity \/ t = <<43>> \o S_Infinity THEN Inf(FALSE)
    ELSE IF t = <<45>> \o S_Infinity THEN Inf(TRUE)
    ELSE IF At(t, 1) = 48 /\ At(t, 2) \in {120, 88, 111, 79, 98, 66}
         THEN PrefixedLiteral(t, IF At(t, 2) \in {120, 88} THEN 16
                                 ELSE IF At(t, 2) \in {111, 79} THEN 8 ELSE 2)
    ELSE DecimalFrom(t, At(t, 1) = 45, IF At(t, 1) \in {43, 45} THEN 2 ELSE 1,
                     DigitsEnd(t, IF At(t, 1) \in {43, 45} THEN 2 ELSE 1))

\* Number(s) of a string.
StringToNumber(s) == TrimmedToNumber(Trim(s))

\* Number(v): a number, or TypeError.
ToNumber(v) ==
    CASE v.t = "num" -> v
      [] v.t = "undefined" -> NaN
      [] v.t = "null" -> Zero(FALSE)
      [] v.t = "bool" -> IF v.b THEN Whole(1) ELSE Zero(FALSE)
      [] ConvThrows(v) -> TypeError
      [] OTHER -> StringToNumber(StringOf(v))

\* a + b: the strings joined when one of them is a string, an array or an
\* object, the sum of the numbers otherwise; TypeError when an operand's
\* conversion throws.
JsAdd(a, b) ==
    LET operands == <<a, b>>
    IN  IF \E k \in 1..2 : ConvThrows(operands[k]) THEN TypeError
        ELSE IF \E k \in 1..2 : operands[k].t \in {"str", "arr", "obj"}
        THEN Str(Flatten([k \in 1..2 |-> StringOf(operands[k])]))
        ELSE LET n == [k \in 1..2 |-> ToNumber(operands[k])]
             IN  NumAdd(n[1], n[2])

\* a === b for values that are no arrays or objects.
StrictEquals(a, b) ==
    /\ a.t = b.t
    /\ a.t \notin {"arr", "obj"}
    /\ (IF a.t = "num" THEN NumEq(a, b) ELSE a = b)

\* v.key for any value v that is not null or undefined, key being none of
\* the names arrays and strings hold.
Prop(v, key) == IF IsObj(v) THEN Get(v, key) ELSE Undefined

\* The properties { ...v } copies: those of an object, the elements of an
\* array and the code units of a string under their indices.
Spread(v) ==
    CASE v.t = "obj" -> v.o
      [] v.t = "arr" -> [i \in 1..Len(v.a) |-> [k |-> NatDigits(i - 1), v |-> v.a[i]]]
      [] v.t = "str" -> [i \in 1..Len(v.s) |-> [k |-> NatDigits(i - 1), v |-> Str(<<v.s[i]>>)]]
      [] OTHER -> <<>>

RECURSIVE PutAll(_, _)
\* obj with the properties props set, one after the other.
PutAll(obj, props) ==
    IF props = <<>> THEN obj ELSE PutAll(Put(obj, props[1].k, props[1].v), Tail(props))

\* { ...ann, ...updates }.
Merge(ann, updates) ==
    PutAll(IF IsObj(ann) THEN ann ELSE Obj(Spread(ann)), updates)

---------------------------------------------------------------------------
(* URLSearchParams: a list of [name, raw, canon] pairs, name decoded and raw  *)
(* the value as the query wrote it; a value is decoded where it is read      *)
(* (get, toString), which gives what decoding it at construction gives.      *)
(* canon marks a raw value the serializer itself wrote (by set), which       *)
(* toString writes again unchanged.                                          *)

\* The characters the serializer leaves alone: letters, digits and * - . _
FormKeep == Alpha \cup Digits \cup {42, 45, 46, 95}

\* What the serializer writes for the code unit at place i of s, from its
\* UTF-8 bytes.
FormEscape(s, i) ==
    IF s[i] = 32 THEN <<43>>
    ELSE IF s[i] \in FormKeep THEN <<s[i]>>
    ELSE IF s[i] < 128 THEN PercentByte(s[i])
    ELSE PercentBytes(BytesAt(s, i))

FormEncode(s) ==
    IF \A i \in 1..Len(s) : s[i] \in FormKeep THEN s
    ELSE Flatten([i \in 1..Len(s) |-> FormEscape(s, i)])

\* What a place outside the percent-escapes stands for: "+" is a space, a
\* lone surrogate is U+FFFD, any other code unit itself.
FormItem(s, i) ==
    IF s[i] = 43 THEN <<32>>
    ELSE IF Lone(s, i) THEN <<256 + 65533>>
    ELSE <<256 + s[i]>>

\* The decoding of one name or value: "+" is a space, percent-escapes are
\* bytes, a "%" that two hexadecimal digits do not follow is itself, and the
\* bytes are UTF-8, U+FFFD standing for what is not.
FormDecode(s) ==
    IF \A i \in 1..Len(s) : s[i] \notin {37, 43} /\ ~Lone(s, i) THEN s
    ELSE Utf8Decode(Unescaped(s, Escapes(s), FormItem)).s

\* One piece of a query, e being the place of its first "=" (0 for none).
Pair(piece, e) ==
    [name |-> FormDecode(Slice(piece, 1, IF e = 0 THEN Len(piece) ELSE e - 1)),
     raw |-> IF e = 0 THEN <<>> ELSE Slice(piece, e + 1, Len(piece)),
     canon |-> FALSE]

NonEmpty(piece) == piece # <<>>

PairsFrom(full) == [k \in 1..Len(full) |-> Pair(full[k], IndexOf(full[k], {61}, 1))]

\* The pairs of q, cuts being the places of its "&", 0 and Len(q) + 1.
PairsAt(q, cuts) ==
    PairsFrom(SelectSeq([k \in 1..(Len(cuts) - 1) |->
                            Slice(q, cuts[k] + 1, cuts[k + 1] - 1)], NonEmpty))

PairsOf(q) ==
    PairsAt(q, <<0>> \o Sorted({i \in 1..Len(q) : q[i] = 38}) \o <<Len(q) + 1>>)

\* new URLSearchParams(query): a leading "?" is dropped, the rest is split at
\* "&", each non-empty piece at its first "=".
URLSearchParams(query) ==
    PairsOf(IF At(query, 1) = 63 THEN Slice(query, 2, Len(query)) ELSE query)

\* params.get(name): the first value of that name, null when there is none.
ParamsGet(params, name) ==
    LET hits == {i \in 1..Len(params) : params[i].name = name}
    IN  IF hits = {} THEN Null ELSE Str(FormDecode(params[Least(hits)].raw))

\* params with the pair new set at the places hits of its name.
SetAt(params, hits, new) ==
    IF hits = {} THEN Append(params, new)
    ELSE KeepIndices([params EXCEPT ![Least(hits)] = new],
                     {i \in 1..Len(params) : i \notin hits \/ i = Least(hits)})

\* params.set(name, value): the first pair of that name takes the value and
\* the others of that name go; with none, the pair is appended.
ParamsSet(params, name, value) ==
    SetAt(params, {i \in 1..Len(params) : params[i].name = name},
          [name |-> name, raw |-> FormEncode(value), canon |-> TRUE])

\* What toString writes for one pair.
PairToString(pair) ==
    FormEncode(pair.name) \o <<61>>
    \o (IF pair.canon THEN pair.raw ELSE FormEncode(FormDecode(pair.raw)))

\* params.toString().
ParamsToString(params) ==
    Flatten([i \in 1..Len(params) |->
        (IF i = 1 THEN <<>> ELSE <<38>>) \o PairToString(params[i])])

---------------------------------------------------------------------------
(* Home: src/app/page.tsx *)

\* Property and parameter names.
K_id          == Lit(<<"i", "d">>)
K_text        == Lit(<<"t", "e", "x", "t">>)
K_x           == Lit(<<"x">>)
K_y           == Lit(<<"y">>)
K_fontSize    == Lit(<<"f", "o", "n", "t", "S", "i", "z", "e">>)
K_color       == Lit(<<"c", "o", "l", "o", "r">>)
K_pageNumber  == Lit(<<"p", "a", "g", "e", "N", "u", "m", "b", "e", "r">>)
K_annotations == Lit(<<"a", "n", "n", "o", "t", "a", "t", "i", "o", "n", "s">>)
K_pdf         == Lit(<<"p", "d", "f">>)

\* An Annotation object literal, its properties in the order the code
\* writes them.
Annotation(id, text, x, y, size, color, page) ==
    Obj(<< [k |-> K_id, v |-> id], [k |-> K_text, v |-> text],
           [k |-> K_x, v |-> x], [k |-> K_y, v |-> y],
           [k |-> K_fontSize, v |-> size], [k |-> K_color, v |-> color],
           [k |-> K_pageNumber, v |-> page] >>)

SetParsed(j) ==
    IF j.ok THEN [set |-> TRUE, v |-> j.v] ELSE [set |-> FALSE, v |-> Undefined]

ReadDecoded(d) ==
    IF d.ok THEN SetParsed(JSON_parse(d.s)) ELSE [set |-> FALSE, v |-> Undefined]

\* The try block of the mount effect on the `annotations` parameter: the
\* collection to set, or nothing to set when decoding or parsing throws.
ReadAnnotations(annotationsParam) == ReadDecoded(decodeURIComponent(annotationsParam))

\* A write that hands the JSON text to params.set as it is.
WriteAnnotationsPlain(query, newAnnotations) ==
    <<63>> \o ParamsToString(ParamsSet(URLSearchParams(query), K_annotations,
                  JSON_stringify(newAnnotations)))

\* window.location.search after handleAnnotationsChange's replaceState.
WriteAnnotations(query, newAnnotations) ==
    <<63>> \o ParamsToString(ParamsSet(URLSearchParams(query), K_annotations,
                  encodeURIComponent(JSON_stringify(newAnnotations)).s))

AfterRead(r, current) == IF r.set THEN r.v ELSE current

AfterParam(annotationsParam, current) ==
    IF Truthy(annotationsParam) THEN AfterRead(ReadAnnotations(annotationsParam.s), current)
    ELSE current

\* The mount effect's result for the annotation state: the parsed value when
\* the parameter is present, decodes and parses; the state as it was otherwise.
AnnotationsAfterMount(query, current) ==
    AfterParam(ParamsGet(URLSearchParams(query), K_annotations), current)

\* Whether the mount effect sets pdfUrl.
PdfUrlAfterMount(query) == Truthy(ParamsGet(URLSearchParams(query), K_pdf))

---------------------------------------------------------------------------
(* PDFViewer: src/components/PDFViewer.tsx *)

\* Bounds of the model.
MaxAnnotations  == 2    \* adds are taken while the collection is shorter
FirstTick       == 4    \* Date.now() when the session opens
MaxClock        == 5    \* Date.now() advances by itself up to here
MaxEvents       == 3    \* events of the user and the renderer in a session
MaxExportEvents == 3    \* the same in a session that exports
MaxOverlapEvents == 4   \* the same in a session whose exports overlap
MaxExports      == 2    \* invocations of exportPDF in a session
MaxZoomSteps    == 1    \* zoom presses taken away from scale 1, either way
DocPages        == 2    \* the page count of the document that is opened
TimerDelay      == 50   \* the delay handleContextMenu hands to setTimeout

\* The placeholder text.
Placeholder == <<12486, 12461, 12473, 12488>>

\* The literal 0.1 of the zoom buttons.
Tenth == DecimalToDouble(FALSE, <<1>>, -1)

\* The true size of a page of the document, in points.
PageSize(p) == [width |-> Whole(600), height |-> Whole(800)]

\* The width and height the renderer reports for a page at a zoom factor.
RenderedSize(p, zoom) ==
    [width |-> NumMul(PageSize(p).width, zoom),
     height |-> NumMul(PageSize(p).height, zoom)]

ViewerShown == pdfFile \/ pdfUrl

\* annotations.filter(ann => ann.pageNumber === page): the positions kept.
OnPage(coll, page) ==
    {i \in 1..Len(coll.a) : StrictEquals(Prop(coll.a[i], K_pageNumber), Whole(page))}

\* What an id is held as: an array or an object is the one the annotation at
\* position i holds, which no other value equals; any other id is its value.
IdHandle(coll, i) ==
    IF Prop(coll.a[i], K_id).t \in {"arr", "obj"} THEN [t |-> "ref", at |-> i]
    ELSE Prop(coll.a[i], K_id)

\* coll[i].id === id.
Selects(id, coll, i) ==
    IF id.t = "ref" THEN id.at = i ELSE StrictEquals(Prop(coll.a[i], K_id), id)

RECURSIVE Renderable(_)
\* Whether the renderer takes a value as a child: an object it does not, an
\* array when it takes each element.
Renderable(v) ==
    CASE v.t = "obj" -> FALSE
      [] v.t = "arr" -> \A i \in 1..Len(v.a) : Renderable(v.a[i])
      [] OTHER -> TRUE

\* The fields of an annotation of the page that a render converts:
\* `refs[ann.id]` and `key={annotation.id}` to a key, `annotation.x * scale`,
\* `annotation.y * scale` and `annotation.fontSize * scale` to a number, and
\* the style's `color: annotation.color` to a string.
ConvertedFields == {K_id, K_x, K_y, K_fontSize, K_color}

\* Whether rendering the viewer throws: `annotations.forEach` and
\* `annotations.filter(ann => ann.pageNumber === pageNumber)` on a value that
\* is no array, or on an array holding null; for an annotation of the page, a
\* converted field whose conversion throws; and `{annotation.text}` of an
\* annotation of the page that is not selected when the text is an object.
RenderThrows(coll, page, selected) ==
    \/ ~IsArr(coll)
    \/ \E i \in 1..Len(coll.a) : coll.a[i].t \in {"null", "undefined"}
    \/ \E i \in OnPage(coll, page) :
          \/ \E k \in ConvertedFields : ConvThrows(Prop(coll.a[i], k))
          \/ /\ ~Selects(selected, coll, i)
             /\ ~Renderable(Prop(coll.a[i], K_text))

\* The viewer renders again after a step.
Rendered == crashed' = RenderThrows(annotations', pageNumber', selectedAnnotation')

\* The viewer can take an event: it is mounted and its render did not throw.
Live == mounted /\ ViewerShown /\ ~crashed

\* const pageAnnotations = annotations.filter(...): the positions kept.
pageAnnotations == OnPage(annotations, pageNumber)

\* const isSelected = selectedAnnotation === annotation.id.
isSelected(i) == Selects(selectedAnnotation, annotations, i)

\* The state of a freshly mounted viewer (the useState initial values).
ViewerMounts ==
    /\ numPages' = 0
    /\ pageNumber' = 1
    /\ scale' = Whole(1)
    /\ newText' = <<>>
    /\ fontSize' = Whole(16)
    /\ textColor' = Lit(<<"#", "0", "0", "0", "0", "0", "0">>)
    /\ pdfDimensions' = <<>>
    /\ selectedAnnotation' = Null
    /\ editingText' = Str(<<>>)
    /\ timers' = <<>>

\* Home.handleAnnotationsChange(newAnnotations).
handleAnnotationsChange(newAnnotations) ==
    /\ annotations' = newAnnotations
    /\ search' = WriteAnnotations(search, newAnnotations)
    /\ UNCHANGED <<mounted, pdfFile, pdfUrl>>

\* Date.now().toString().
NewId == Str(NatDigits(now))

\* updateAnnotation(id, updates): the new collection.
updateAnnotation(id, updates) ==
    Arr([i \in 1..Len(annotations.a) |->
            IF Selects(id, annotations, i)
            THEN Merge(annotations.a[i], updates)
            ELSE annotations.a[i]])

\* The inputs of the events.
ClickOffsets == {<<0, 0>>, <<198, 99>>}     \* clientX - rect.left, clientY - rect.top
DragStops    == {<<-99, 198>>}              \* data.x, data.y
TextInputs   == {Lit(<<"H", "i">>)}
SizeInputs   == {Whole(100)}                \* Number(e.target.value)
ColorInputs  == {Lit(<<"#", "f", "f", "0", "0", "0", "0">>)}

onDocumentLoadSuccess ==
    /\ Live /\ numPages = 0
    /\ numPages' = DocPages
    /\ UNCHANGED <<homeVars, crashed, pageNumber, scale, newText, fontSize, textColor,
                   pdfDimensions, selectedAnnotation, editingText, timers, now,
                   exportVars, fnVars>>

onPageLoadSuccess ==
    /\ Live /\ numPages > 0 /\ pageNumber <= numPages
    /\ pdfDimensions' =
          [q \in DOMAIN pdfDimensions \cup {pageNumber} |->
              IF q = pageNumber THEN RenderedSize(pageNumber, scale)
              ELSE pdfDimensions[q]]
    /\ UNCHANGED <<homeVars, crashed, numPages, pageNumber, scale, newText, fontSize,
                   textColor, selectedAnnotation, editingText, timers, now,
                   exportVars, fnVars>>

handleContextMenu ==
    /\ Live /\ Len(annotations.a) < MaxAnnotations
    /\ \E e \in ClickOffsets :
          LET x == NumDiv(Whole(e[1]), scale)
              y == NumDiv(Whole(e[2]), scale)
              newAnnotation == Annotation(NewId, Str(Placeholder), x, y, fontSize,
                                          Str(textColor), Whole(pageNumber))
          IN  /\ handleAnnotationsChange(Arr(Append(annotations.a, newAnnotation)))
              /\ timers' = Append(timers, [id |-> newAnnotation.o[1].v,
                                           text |-> newAnnotation.o[2].v,
                                           due |-> now + TimerDelay])
    /\ UNCHANGED <<numPages, pageNumber, scale, newText, fontSize, textColor,
                   pdfDimensions, selectedAnnotation, editingText, now,
                   exportVars, fnVars>>
    /\ Rendered

\* The callback handleContextMenu hands to setTimeout: the pending callbacks
\* run in the order they were set, each no sooner than its delay allows.
TimerFires ==
    /\ Live /\ timers # <<>>
    /\ selectedAnnotation' = timers[1].id
    /\ editingText' = timers[1].text
    /\ timers' = Tail(timers)
    /\ now' = IF now < timers[1].due THEN timers[1].due ELSE now
    /\ UNCHANGED <<homeVars, numPages, pageNumber, scale, newText, fontSize,
                   textColor, pdfDimensions, exportVars, fnVars>>
    /\ Rendered

addAnnotation ==
    /\ Live /\ Len(annotations.a) < MaxAnnotations
    /\ LET newAnnotation ==
              Annotation(NewId,
                         Str(IF Trim(newText) # <<>> THEN Trim(newText) ELSE Placeholder),
                         Whole(100), Whole(100), fontSize, Str(textColor),
                         Whole(pageNumber))
       IN  handleAnnotationsChange(Arr(Append(annotations.a, newAnnotation)))
    /\ newText' = <<>>
    /\ UNCHANGED <<numPages, pageNumber, scale, fontSize, textColor, pdfDimensions,
                   selectedAnnotation, editingText, timers, now, exportVars, fnVars>>
    /\ Rendered

\* Draggable onStop of an annotation of the page that is not being edited.
onStop ==
    /\ Live
    /\ \E i \in pageAnnotations, data \in DragStops :
          /\ ~isSelected(i)
          /\ handleAnnotationsChange(
                updateAnnotation(IdHandle(annotations, i),
                    << [k |-> K_x, v |-> MathMax(Whole(0), NumDiv(Whole(data[1]), scale))],
                       [k |-> K_y, v |-> MathMax(Whole(0), NumDiv(Whole(data[2]), scale))] >>))
    /\ UNCHANGED <<numPages, pageNumber, scale, newText, fontSize, textColor,
                   pdfDimensions, selectedAnnotation, editingText, timers, now,
                   exportVars, fnVars>>
    /\ Rendered

\* deleteAnnotation(id), from the buttons of an annotation of the page.
deleteAnnotation ==
    /\ Live
    /\ \E i \in pageAnnotations :
          handleAnnotationsChange(
             Arr(KeepIndices(annotations.a,
                    {j \in 1..Len(annotations.a) :
                        ~Selects(IdHandle(annotations, i), annotations, j)})))
    /\ selectedAnnotation' = Null
    /\ UNCHANGED <<numPages, pageNumber, scale, newText, fontSize, textColor,
                   pdfDimensions, editingText, timers, now, exportVars, fnVars>>
    /\ Rendered

\* startEditing(annotation), for an annotation of the page that is not selected.
startEditing ==
    /\ Live
    /\ \E i \in pageAnnotations :
          /\ ~isSelected(i)
          /\ selectedAnnotation' = IdHandle(annotations, i)
          /\ editingText' = Prop(annotations.a[i], K_text)
    /\ UNCHANGED <<homeVars, numPages, pageNumber, scale, newText, fontSize,
                   textColor, pdfDimensions, timers, now, exportVars, fnVars>>
    /\ Rendered

\* An annotation of the page is shown selected, with its edit panel.
EditorShown == \E i \in pageAnnotations : isSelected(i)

\* The text field of the edit panel.
setEditingText ==
    /\ Live /\ EditorShown
    /\ \E txt \in TextInputs : editingText' = Str(txt) /\ editingText # Str(txt)
    /\ UNCHANGED <<homeVars, crashed, numPages, pageNumber, scale, newText, fontSize,
                   textColor, pdfDimensions, selectedAnnotation, timers, now,
                   exportVars, fnVars>>

\* saveEdit, from the text field of the edit panel losing the focus or
\* taking Enter: `editingText.trim()` of a value that is no string throws and
\* nothing is set.
saveEdit ==
    /\ Live /\ EditorShown
    /\ IF Truthy(selectedAnnotation) /\ ~IsStr(editingText)
       THEN UNCHANGED <<homeVars, crashed, selectedAnnotation, editingText>>
       ELSE /\ IF Truthy(selectedAnnotation) /\ Trim(editingText.s) # <<>>
               THEN handleAnnotationsChange(
                       updateAnnotation(selectedAnnotation,
                                        <<[k |-> K_text, v |-> editingText]>>))
               ELSE UNCHANGED homeVars
            /\ selectedAnnotation' = Null
            /\ editingText' = Str(<<>>)
            /\ UNCHANGED pageNumber
            /\ Rendered
    /\ UNCHANGED <<numPages, pageNumber, scale, newText, fontSize, textColor,
                   pdfDimensions, timers, now, exportVars, fnVars>>

\* The font-size field of the edit panel of a selected annotation.
editFontSize ==
    /\ Live
    /\ \E i \in pageAnnotations, size \in SizeInputs :
          /\ isSelected(i)
          /\ Prop(annotations.a[i], K_fontSize) # size
          /\ handleAnnotationsChange(
                updateAnnotation(IdHandle(annotations, i),
                                 <<[k |-> K_fontSize, v |-> size]>>))
    /\ UNCHANGED <<numPages, pageNumber, scale, newText, fontSize, textColor,
                   pdfDimensions, selectedAnnotation, editingText, timers, now,
                   exportVars, fnVars>>
    /\ Rendered

\* The color field of the edit panel of a selected annotation.
editColor ==
    /\ Live
    /\ \E i \in pageAnnotations, col \in ColorInputs :
          /\ isSelected(i)
          /\ Prop(annotations.a[i], K_color) # Str(col)
          /\ handleAnnotationsChange(
                updateAnnotation(IdHandle(annotations, i),
                                 <<[k |-> K_color, v |-> Str(col)]>>))
    /\ UNCHANGED <<numPages, pageNumber, scale, newText, fontSize, textColor,
                   pdfDimensions, selectedAnnotation, editingText, timers, now,
                   exportVars, fnVars>>
    /\ Rendered

\* The toolbar's fields.
setNewText ==
    /\ Live
    /\ \E txt \in TextInputs : newText' = txt /\ newText # txt
    /\ UNCHANGED <<homeVars, crashed, numPages, pageNumber, scale, fontSize, textColor,
                   pdfDimensions, selectedAnnotation, editingText, timers, now,
                   exportVars, fnVars>>

setFontSize ==
    /\ Live
    /\ \E size \in SizeInputs : fontSize' = size /\ fontSize # size
    /\ UNCHANGED <<homeVars, crashed, numPages, pageNumber, scale, newText, textColor,
                   pdfDimensions, selectedAnnotation, editingText, timers, now,
                   exportVars, fnVars>>

setTextColor ==
    /\ Live
    /\ \E col \in ColorInputs : textColor' = col /\ textColor # col
    /\ UNCHANGED <<homeVars, crashed, numPages, pageNumber, scale, newText, fontSize,
                   pdfDimensions, selectedAnnotation, editingText, timers, now,
                   exportVars, fnVars>>

previousPage ==
    /\ Live /\ ~(pageNumber <= 1)
    /\ pageNumber' = IF 1 >= pageNumber - 1 THEN 1 ELSE pageNumber - 1
    /\ UNCHANGED <<homeVars, numPages, scale, newText, fontSize, textColor,
                   pdfDimensions, selectedAnnotation, editingText, timers, now,
                   exportVars, fnVars>>
    /\ Rendered

nextPage ==
    /\ Live /\ ~(pageNumber >= numPages)
    /\ pageNumber' = IF numPages <= pageNumber + 1 THEN numPages ELSE pageNumber + 1
    /\ UNCHANGED <<homeVars, numPages, scale, newText, fontSize, textColor,
                   pdfDimensions, selectedAnnotation, editingText, timers, now,
                   exportVars, fnVars>>
    /\ Rendered

\* The zoom factors the zoom buttons are taken between.
ZoomLow  == NumSub(Whole(1), NumMul(Whole(MaxZoomSteps), Tenth))
ZoomHigh == NumAdd(Whole(1), NumMul(Whole(MaxZoomSteps), Tenth))

\* The zoom buttons, taken while the zoom factor is above low, below high.
zoomOutWithin(low) ==
    /\ Live /\ NumLt(low, scale)
    /\ scale' = NumSub(scale, Tenth)
    /\ UNCHANGED <<homeVars, crashed, numPages, pageNumber, newText, fontSize, textColor,
                   pdfDimensions, selectedAnnotation, editingText, timers, now,
                   exportVars, fnVars>>

zoomInWithin(high) ==
    /\ Live /\ NumLt(scale, high)
    /\ scale' = NumAdd(scale, Tenth)
    /\ UNCHANGED <<homeVars, crashed, numPages, pageNumber, newText, fontSize, textColor,
                   pdfDimensions, selectedAnnotation, editingText, timers, now,
                   exportVars, fnVars>>

zoomOut == zoomOutWithin(ZoomLow)

zoomIn == zoomInWithin(ZoomHigh)

---------------------------------------------------------------------------
(* Home's own events *)

\* The mount effect (useEffect with no dependencies).
MountEffect ==
    /\ ~mounted
    /\ mounted' = TRUE
    /\ pdfUrl' = PdfUrlAfterMount(search)
    /\ annotations' = AnnotationsAfterMount(search, annotations)
    /\ crashed' = ((pdfFile \/ pdfUrl')
                   /\ RenderThrows(annotations', pageNumber, selectedAnnotation))
    /\ UNCHANGED <<pdfFile, search, numPages, pageNumber, scale, newText, fontSize,
                   textColor, pdfDimensions, selectedAnnotation, editingText, timers,
                   now, exportVars, fnVars>>

\* handleFileUpload(file), from the upload screen.
handleFileUpload ==
    /\ mounted /\ ~ViewerShown /\ ~crashed
    /\ pdfFile' = TRUE
    /\ ViewerMounts
    /\ UNCHANGED <<mounted, pdfUrl, annotations, search, now, exportVars, fnVars>>
    /\ Rendered

\* onReset: the viewer is unmounted and its state goes with it.
onReset ==
    /\ Live
    /\ pdfFile' = FALSE
    /\ pdfUrl' = FALSE
    /\ annotations' = Arr(<<>>)
    /\ search' = <<>>
    /\ ViewerMounts
    /\ UNCHANGED <<mounted, crashed, now, exportVars, fnVars>>

\* Time passes.
Tick ==
    /\ now < MaxClock
    /\ now' = now + 1
    /\ UNCHANGED <<homeVars, viewerVars, exportVars, fnVars>>

---------------------------------------------------------------------------
(* exportPDF: src/components/PDFViewer.tsx *)

\* The property key a value is used as, or TypeError.
ToKey(v) == ToStr(v)

\* The key an annotation is grouped under, `acc[ann.pageNumber]`, or
\* TypeError.
GroupKey(ann) == ToKey(Prop(ann, K_pageNumber))

\* The names every object inherits: under them `acc[ann.pageNumber]` of the
\* empty object is a value that is truthy and has no push.
InheritedKeys ==
    {Lit(<<"c", "o", "n", "s", "t", "r", "u", "c", "t", "o", "r">>),
     S_toString,
     Lit(<<"t", "o", "L", "o", "c", "a", "l", "e", "S", "t", "r", "i", "n", "g">>),
     Lit(<<"v", "a", "l", "u", "e", "O", "f">>),
     Lit(<<"h", "a", "s", "O", "w", "n", "P", "r", "o", "p", "e", "r", "t", "y">>),
     Lit(<<"i", "s", "P", "r", "o", "t", "o", "t", "y", "p", "e", "O", "f">>),
     Lit(<<"p", "r", "o", "p", "e", "r", "t", "y", "I", "s", "E", "n", "u", "m", "e",
           "r", "a", "b", "l", "e">>),
     Lit(<<"_", "_", "p", "r", "o", "t", "o", "_", "_">>),
     Lit(<<"_", "_", "d", "e", "f", "i", "n", "e", "G", "e", "t", "t", "e", "r", "_", "_">>),
     Lit(<<"_", "_", "d", "e", "f", "i", "n", "e", "S", "e", "t", "t", "e", "r", "_", "_">>),
     Lit(<<"_", "_", "l", "o", "o", "k", "u", "p", "G", "e", "t", "t", "e", "r", "_", "_">>),
     Lit(<<"_", "_", "l", "o", "o", "k", "u", "p", "S", "e", "t", "t", "e", "r", "_", "_">>)}

\* The grouping throws: the conversion of an annotation's pageNumber to a
\* key throws, or the key is an inherited name.
GroupingThrows(coll) ==
    \E i \in 1..Len(coll.a) :
        \/ ConvThrows(Prop(coll.a[i], K_pageNumber))
        \/ GroupKey(coll.a[i]) \in InheritedKeys

\* acc after one step of the reduce for the annotation at position i, the
\* groups holding positions of the collection.
GroupStep(acc, key, i) ==
    Put(acc, key, Arr(IF Get(acc, key) = Undefined THEN <<i>>
                      ELSE Append(Get(acc, key).a, i)))

RECURSIVE GroupUpTo(_, _)
\* annotationsByPage after the first n annotations.
GroupUpTo(coll, n) ==
    IF n = 0 THEN Obj(<<>>)
    ELSE GroupStep(GroupUpTo(coll, n - 1), GroupKey(coll.a[n]), n)

\* Object.entries(annotationsByPage): the groups in the order the loop takes
\* them, each the positions of its annotations in the collection.
GroupsInOrder(coll) ==
    LET entries == GroupUpTo(coll, Len(coll.a)).o
    IN  [g \in 1..Len(entries) |-> [pageNum |-> entries[g].k, members |-> entries[g].v.a]]

\* The number of the page pages[parseInt(pageNum) - 1] is, 0 when it is
\* undefined.
PageOf(pageNum) ==
    LET index == NumSub(ParseInt(pageNum, 0), Whole(1))
        hits == {p \in 1..DocPages : NumEq(index, Whole(p - 1))}
    IN  IF hits = {} THEN 0 ELSE CHOOSE p \in hits : TRUE

\* pages[parseInt(pageNum) - 1] is a page of the document.
HasPage(pageNum) == PageOf(pageNum) # 0

\* `annotation.color.substring(1)` throws: color is no string.
ColorThrows(ann) == ~IsStr(Prop(ann, K_color))

\* s.substring(from, to) for 0 <= from <= to.
Substring(s, from, to) == Slice(s, from + 1, IF to <= Len(s) THEN to ELSE Len(s))

\* The two characters of component k (0, 1, 2) of color.substring(1).
HexPair(color, k) == Substring(Substring(color, 1, Len(color)), 2 * k, 2 * k + 2)

\* One of r, g, b: parseInt of its two characters over 255.
Channel(ann, k) == NumDiv(ParseInt(HexPair(Prop(ann, K_color).s, k), 16), Whole(255))

\* A component that rgb rejects: NaN or outside [0, 1].
OutOfUnit(c) == ~(NumLe(Zero(FALSE), c) /\ NumLe(c, Whole(1)))

\* rgb(r, g, b) throws.
RgbThrows(ann) == \E k \in 0..2 : OutOfUnit(Channel(ann, k))

\* The characters drawText takes out of a text, or breaks its lines at,
\* before the font encodes it.
LineChars == {8, 9, 10, 11, 12, 13, 133, 8232, 8233}

\* The characters the standard font's encoding holds.
WinAnsiChars ==
    (32..126) \cup (161..172) \cup (174..255)
    \cup {338, 339, 352, 353, 376, 381, 382, 402, 710, 732, 8211, 8212, 8216, 8217,
          8218, 8220, 8221, 8222, 8224, 8225, 8226, 8230, 8240, 8249, 8250, 8364,
          8482}

\* page.drawText throws on a text: it is no string, or the standard font
\* cannot encode one of its characters.
TextThrows(text, font) ==
    \/ ~IsStr(text)
    \/ font = "standard" /\ \E i \in 1..Len(text.s) :
                               text.s[i] \notin WinAnsiChars \cup LineChars

DrawTextThrows(ann, font) == TextThrows(Prop(ann, K_text), font)

\* drawText rejects an option: x or y is NaN, or size is neither undefined
\* nor a number other than NaN.
OptionsThrow(at, size) ==
    \/ IsNaN(at.x) \/ IsNaN(at.y)
    \/ size.t # "undefined" /\ (~IsNum(size) \/ IsNaN(size))

\* The fields the loop body converts to numbers before its try: x and y in
\* Math.max, fontSize in `normalizedY + annotation.fontSize`.
PositionFields == {K_x, K_y, K_fontSize}

\* The loop body throws before its try: `annotation.color.substring(1)`, or
\* the conversion of x, y or fontSize.
LoopBodyThrows(ann) ==
    \/ ColorThrows(ann)
    \/ \E k \in PositionFields : ConvThrows(Prop(ann, k))

\* A transform that flips the annotation's top edge, not its baseline.
DrawPositionOfTop(ann, pageDims, size) ==
    IF \E k \in PositionFields : ConvThrows(Prop(ann, k)) THEN TypeError ELSE
    LET normalized == [k \in {K_x, K_y} |-> MathMax(Whole(0), ToNumber(Prop(ann, k)))]
    IN  [x |-> MathMax(Whole(0),
                       NumMul(NumDiv(normalized[K_x], pageDims.width), size.width)),
         y |-> MathMax(Whole(0),
                       NumSub(size.height,
                              NumMul(NumDiv(normalized[K_y], pageDims.height),
                                     size.height)))]

\* pdfY for normalizedY, or TypeError.
PdfY(ann, normalizedY, pageDims, size) ==
    IF ConvThrows(Prop(ann, K_fontSize)) THEN TypeError ELSE
    NumSub(size.height,
           NumMul(NumDiv(ToNumber(JsAdd(normalizedY, Prop(ann, K_fontSize))),
                         pageDims.height),
                  size.height))

\* The point an annotation is drawn at on a page of true size `size` whose
\* captured dimensions are pageDims, or TypeError.
DrawPosition(ann, pageDims, size) ==
    IF \E k \in PositionFields : ConvThrows(Prop(ann, k)) THEN TypeError ELSE
    LET normalized == [k \in {K_x, K_y} |-> MathMax(Whole(0), ToNumber(Prop(ann, k)))]
    IN  [x |-> MathMax(Whole(0),
                       NumMul(NumDiv(normalized[K_x], pageDims.width), size.width)),
         y |-> MathMax(Whole(0), PdfY(ann, normalized[K_y], pageDims, size))]

\* pdfDimensions[pageNumInt] || { width, height }.
PageDims(dims, p) == IF p \in DOMAIN dims THEN dims[p] ELSE PageSize(p)

\* The invocations of exportPDF a session is followed through.
Invocations == 1..MaxExports

\* The collection of the latest render, which no running closure holds.
LiveCollection(n) == annotations

\* The collection and the page dimensions invocation n of exportPDF reads
\* after its awaits: those of the render whose closure it is.
ExportCollection(n) == expAnnotations[n]
ExportDims(n) == expDims[n]

\* The drawText call for the annotation at position i, drawn at the point
\* `at` of page p (ok: rgb and drawText returned).
Call(i, ann, p, at, font) ==
    [i |-> i, threw |-> FALSE, page |-> p, x |-> at.x, y |-> at.y,
     size |-> Prop(ann, K_fontSize), font |-> font,
     ok |-> /\ ~RgbThrows(ann)
            /\ ~DrawTextThrows(ann, font)
            /\ ~OptionsThrow(at, Prop(ann, K_fontSize))]

\* The body of the inner loop for an annotation of page p: the exception
\* that leaves the loops, or the drawText call.
DrawOne(i, ann, p, dims, font) ==
    IF LoopBodyThrows(ann) THEN [i |-> i, threw |-> TRUE]
    ELSE Call(i, ann, p, DrawPosition(ann, PageDims(dims, p), PageSize(p)), font)

\* The calls for the positions of order, up to the first whose body throws.
CallsUpTo(coll, order, bad, dims, font) ==
    [calls |-> [k \in 1..(IF bad = {} THEN Len(order) ELSE Least(bad) - 1) |->
                   DrawOne(order[k], coll.a[order[k]],
                           PageOf(GroupKey(coll.a[order[k]])), dims, font)],
     threw |-> bad # {}]

\* The positions of the annotations in the order the loops reach them.
DrawOrder(groups) ==
    Flatten([g \in 1..Len(groups) |->
                IF HasPage(groups[g].pageNum) THEN groups[g].members ELSE <<>>])

DrawInOrder(coll, order, dims, font) ==
    CallsUpTo(coll, order, {k \in 1..Len(order) : LoopBodyThrows(coll.a[order[k]])},
              dims, font)

\* The reduce and the loops over the groups and their annotations with font
\* embedded: the drawText calls in order and whether an exception left them.
DrawAll(coll, dims, font) ==
    IF GroupingThrows(coll) THEN [calls |-> <<>>, threw |-> TRUE]
    ELSE DrawInOrder(coll, DrawOrder(GroupsInOrder(coll)), dims, font)

\* Invocation n has not been made.
NotInvoked(n) == expPc[n] = "idle"

\* The variables of the invocations other than those named stay.
ExportKeeps(changed) ==
    /\ IF "pc" \in changed THEN TRUE ELSE UNCHANGED expPc
    /\ IF "closure" \in changed THEN TRUE ELSE UNCHANGED <<expAnnotations, expDims, expShown>>
    /\ IF "font" \in changed THEN TRUE ELSE UNCHANGED expFont
    /\ IF "draws" \in changed THEN TRUE ELSE UNCHANGED draws
    /\ IF "alert" \in changed THEN TRUE ELSE UNCHANGED expAlert

\* A step of an invocation: nothing of the session changes.
ExportStep(changed) ==
    /\ ExportKeeps(changed)
    /\ UNCHANGED <<homeVars, viewerVars, now, events, fnVars>>

\* The click on the export button: the synchronous start of exportPDF, up to
\* its first await. The button stays enabled, so an invocation starts while
\* others are in flight; the session is followed through MaxExports of them.
exportPDF ==
    /\ Live
    /\ \E n \in Invocations :
          /\ NotInvoked(n)
          /\ \A m \in 1..(n - 1) : ~NotInvoked(m)
          /\ expPc' = [expPc EXCEPT ![n] = "source"]
          /\ expAnnotations' = [expAnnotations EXCEPT ![n] = annotations]
          /\ expDims' = [expDims EXCEPT ![n] = pdfDimensions]
          /\ expShown' = [expShown EXCEPT ![n] = [annotations |-> annotations,
                                                  dims |-> pdfDimensions]]
    /\ UNCHANGED <<expFont, draws, expAlert>>
    /\ UNCHANGED <<homeVars, viewerVars, now, fnVars>>

\* The source bytes arrive and PDFDocument.load returns; the font is asked for.
ExportSourceLoaded(n) ==
    /\ expPc[n] = "source"
    /\ expPc' = [expPc EXCEPT ![n] = "font"]
    /\ ExportStep({"pc"})

\* The outer catch: the invocation ends with the alert.
OuterCatch(n, cause) ==
    /\ expPc' = [expPc EXCEPT ![n] = "failed"]
    /\ expAlert' = [expAlert EXCEPT ![n] = cause]

\* arrayBuffer, fetch or PDFDocument.load rejects: the outer catch alerts.
ExportSourceFails(n) ==
    /\ expPc[n] = "source"
    /\ OuterCatch(n, "load")
    /\ ExportStep({"pc", "alert"})

\* What follows the embedding of a font, up to the await of pdfDoc.save().
DrawOutcome(n, r) ==
    /\ draws' = [draws EXCEPT ![n] = r.calls]
    /\ IF r.threw THEN OuterCatch(n, "annotation")
       ELSE expPc' = [expPc EXCEPT ![n] = "save"] /\ UNCHANGED expAlert

DrawWith(n, font) ==
    /\ expFont' = [expFont EXCEPT ![n] = font]
    /\ DrawOutcome(n, DrawAll(ExportCollection(n), ExportDims(n), font))
    /\ ExportStep({"pc", "font", "draws", "alert"})

\* The custom font is fetched and embedded.
ExportFontEmbedded(n) ==
    /\ expPc[n] = "font"
    /\ DrawWith(n, "custom")

\* registerFontkit, the font's fetch or its embedding throws: the inner catch
\* asks for the standard font.
ExportFontFails(n) ==
    /\ expPc[n] = "font"
    /\ expPc' = [expPc EXCEPT ![n] = "fallback"]
    /\ ExportStep({"pc"})

\* The standard font is embedded.
ExportFallbackEmbedded(n) ==
    /\ expPc[n] = "fallback"
    /\ DrawWith(n, "standard")

\* The embedding of the standard font rejects, in the inner catch and so
\* past it: the outer catch alerts, with nothing drawn or saved.
ExportFallbackFails(n) ==
    /\ expPc[n] = "fallback"
    /\ OuterCatch(n, "font")
    /\ ExportStep({"pc", "alert"})

\* pdfDoc.save() returns and the download is started.
ExportSaved(n) ==
    /\ expPc[n] = "save"
    /\ expPc' = [expPc EXCEPT ![n] = "done"]
    /\ ExportStep({"pc"})

\* pdfDoc.save() rejects: the outer catch alerts and nothing is downloaded.
ExportSaveFails(n) ==
    /\ expPc[n] = "save"
    /\ OuterCatch(n, "save")
    /\ ExportStep({"pc", "alert"})
---------------------------------------------------------------------------
(* The session *)

\* A link's query: the pdf parameter when withPdf, and the annotations
\* parameter holding value (what params.get will return for it).
Link(withPdf, value) ==
    <<63>> \o (IF withPdf THEN K_pdf \o Lit(<<"=", "a", "&">>) ELSE <<>>)
    \o K_annotations \o <<61>> \o FormEncode(value)

Red == Str(Lit(<<"#", "f", "f", "0", "0", "0", "0">>))

Hi == Str(Lit(<<"H", "i">>))

\* The collection of the specification's export scenario.
SharedCollection ==
    Arr(<< Annotation(Str(<<49>>), Hi, Whole(10), Whole(20), Whole(16), Red, Whole(1)) >>)

\* A collection of a hand-made link: a negative position on a page the
\* document does not have, a record with no color, and a plain one.
OddCollection ==
    Arr(<< Annotation(Str(<<49>>), Str(Placeholder), Whole(-5), Whole(20),
                      Whole(16), Red, Whole(DocPages + 7)),
           Annotation(Str(<<50>>), Hi, Whole(10), Whole(20),
                      Whole(16), Undefined, Whole(1)),
           Annotation(Str(<<51>>), Hi, Whole(10), Whole(20),
                      Whole(16), Red, Whole(1)) >>)

\* A collection whose draws fail one by one: a text the standard font cannot
\* encode, a color that is no hexadecimal number, and a plain one after them.
MixedCollection ==
    Arr(<< Annotation(Str(<<49>>), Str(Placeholder), Whole(10), Whole(20),
                      Whole(16), Red, Whole(1)),
           Annotation(Str(<<50>>), Hi, Whole(10), Whole(790),
                      Whole(16), Str(Lit(<<"#", "z", "z", "0", "0", "0", "0">>)), Whole(1)),
           Annotation(Str(<<51>>), Hi, Whole(10), Whole(790),
                      Whole(16), Red, Whole(DocPages)) >>)

\* A collection of a hand-made link whose second page holds a record with
\* an x that no conversion takes: {"toString": 1}.
OwnedCollection ==
    Arr(<< Annotation(Str(<<49>>), Hi, Whole(10), Whole(20), Whole(16), Red, Whole(1)),
           Annotation(Str(<<50>>), Hi, Obj(<<[k |-> S_toString, v |-> Whole(1)]>>),
                      Whole(20), Whole(16), Red, Whole(DocPages)) >>)

\* A collection with an annotation on a page the document does not have and
\* a plain one.
FarCollection ==
    Arr(<< Annotation(Str(<<49>>), Hi, Whole(10), Whole(20),
                      Whole(16), Red, Whole(DocPages + 7)),
           Annotation(Str(<<50>>), Hi, Whole(10), Whole(20),
                      Whole(16), Red, Whole(1)) >>)

Encoded(coll) == encodeURIComponent(JSON_stringify(coll)).s

\* Values of the annotations parameter that encode no array of records:
\* JSON cut short, an escape cut short, and JSON of another shape.
MalformedValues ==
    { encodeURIComponent(SubSeq(JSON_stringify(SharedCollection), 1, 9)).s,
      SubSeq(Encoded(SharedCollection), 1, 2),
      encodeURIComponent(Lit(<<"{", "}">>)).s,
      S_null,
      <<53>> }

\* The queries a session is opened with.
InitialSearches ==
    { <<>>, <<63>> \o K_pdf \o Lit(<<"=", "a">>),
      Link(TRUE, Encoded(SharedCollection)),
      Link(TRUE, Encoded(OddCollection)),
      Link(TRUE, Encoded(OwnedCollection)) }
    \cup {Link(TRUE, v) : v \in MalformedValues}
    \cup {Link(FALSE, S_null)}

\* No invocation of exportPDF has been made.
ExportIdle ==
    /\ expPc = [n \in Invocations |-> "idle"]
    /\ expAnnotations = [n \in Invocations |-> Null]
    /\ expDims = [n \in Invocations |-> <<>>]
    /\ expFont = [n \in Invocations |-> "none"]
    /\ draws = [n \in Invocations |-> <<>>]
    /\ expAlert = [n \in Invocations |-> "none"]
    /\ expShown = [n \in Invocations |-> Null]

FnOff == fnIn = Null /\ fnOut = Null /\ fnPc = "off"

ViewerInit ==
    /\ crashed = FALSE
    /\ numPages = 0
    /\ pageNumber = 1
    /\ scale = Whole(1)
    /\ newText = <<>>
    /\ fontSize = Whole(16)
    /\ textColor = Lit(<<"#", "0", "0", "0", "0", "0", "0">>)
    /\ pdfDimensions = <<>>
    /\ selectedAnnotation = Null
    /\ editingText = Str(<<>>)
    /\ timers = <<>>

\* Home and the viewer as a session starts, but for the query.
Idle ==
    /\ mounted = FALSE
    /\ pdfFile = FALSE
    /\ pdfUrl = FALSE
    /\ annotations = Arr(<<>>)
    /\ ViewerInit
    /\ now = FirstTick
    /\ events = 0
    /\ ExportIdle

Init ==
    /\ mounted = FALSE
    /\ pdfFile = FALSE
    /\ pdfUrl = FALSE
    /\ annotations = Arr(<<>>)
    /\ search \in InitialSearches
    /\ ViewerInit
    /\ now = FirstTick
    /\ events = 0
    /\ ExportIdle
    /\ FnOff

\* An event of the user or the renderer, counted against a bound.
Within(bound, A) == events < bound /\ A /\ events' = events + 1

Counted(A) == Within(MaxEvents, A)

Next ==
    \/ (MountEffect /\ UNCHANGED events)
    \/ Counted(handleFileUpload)
    \/ Counted(onReset)
    \/ (Tick /\ UNCHANGED events)
    \/ Counted(onDocumentLoadSuccess)
    \/ Counted(onPageLoadSuccess)
    \/ Counted(handleContextMenu)
    \/ Counted(TimerFires)
    \/ Counted(addAnnotation)
    \/ Counted(onStop)
    \/ Counted(deleteAnnotation)
    \/ Counted(startEditing)
    \/ Counted(setEditingText)
    \/ Counted(saveEdit)
    \/ Counted(editFontSize)
    \/ Counted(editColor)
    \/ Counted(setNewText)
    \/ Counted(setFontSize)
    \/ Counted(setTextColor)
    \/ Counted(previousPage)
    \/ Counted(nextPage)
    \/ Counted(zoomOut)
    \/ Counted(zoomIn)

Spec == Init /\ [][Next]_vars

---------------------------------------------------------------------------
(* Sessions that export *)

\* The links the exporting sessions are opened with.
ExportSearches ==
    { Link(TRUE, Encoded(OddCollection)),
      Link(TRUE, Encoded(MixedCollection)),
      Link(TRUE, Encoded(FarCollection)),
      Link(TRUE, Encoded(OwnedCollection)) }

InitExport ==
    /\ mounted = FALSE
    /\ pdfFile = FALSE
    /\ pdfUrl = FALSE
    /\ annotations = Arr(<<>>)
    /\ search \in ExportSearches
    /\ ViewerInit
    /\ now = FirstTick
    /\ events = 0
    /\ ExportIdle
    /\ FnOff

NextExport ==
    \/ (MountEffect /\ UNCHANGED events)
    \/ Within(MaxExportEvents, onDocumentLoadSuccess)
    \/ Within(MaxExportEvents, onPageLoadSuccess)
    \/ Within(MaxExportEvents, zoomIn)
    \/ Within(MaxExportEvents, addAnnotation)
    \/ Within(MaxExportEvents, onStop)
    \/ Within(MaxExportEvents, deleteAnnotation)
    \/ Within(MaxExportEvents, exportPDF)
    \/ \E n \in Invocations : ExportSourceLoaded(n)
    \/ \E n \in Invocations : ExportSourceFails(n)
    \/ \E n \in Invocations : ExportFontEmbedded(n)
    \/ \E n \in Invocations : ExportFontFails(n)
    \/ \E n \in Invocations : ExportFallbackEmbedded(n)
    \/ \E n \in Invocations : ExportFallbackFails(n)
    \/ \E n \in Invocations : ExportSaved(n)
    \/ \E n \in Invocations : ExportSaveFails(n)

SpecExport == InitExport /\ [][NextExport]_vars

---------------------------------------------------------------------------
(* Sessions whose exports overlap with each other and with the edits *)

InitOverlap ==
    /\ Idle
    /\ search = Link(TRUE, Encoded(SharedCollection))
    /\ FnOff

NextOverlap ==
    \/ (MountEffect /\ UNCHANGED events)
    \/ Within(MaxOverlapEvents, onDocumentLoadSuccess)
    \/ Within(MaxOverlapEvents, onPageLoadSuccess)
    \/ Within(MaxOverlapEvents, zoomIn)
    \/ Within(MaxOverlapEvents, addAnnotation)
    \/ Within(MaxOverlapEvents, onStop)
    \/ Within(MaxOverlapEvents, deleteAnnotation)
    \/ Within(MaxOverlapEvents, exportPDF)
    \/ \E n \in Invocations : ExportSourceLoaded(n)
    \/ \E n \in Invocations : ExportSourceFails(n)
    \/ \E n \in Invocations : ExportFontEmbedded(n)
    \/ \E n \in Invocations : ExportFontFails(n)
    \/ \E n \in Invocations : ExportFallbackEmbedded(n)
    \/ \E n \in Invocations : ExportFallbackFails(n)
    \/ \E n \in Invocations : ExportSaved(n)
    \/ \E n \in Invocations : ExportSaveFails(n)

SpecOverlap == InitOverlap /\ [][NextOverlap]_vars

---------------------------------------------------------------------------
(* The export transform on its own *)

\* The zoom factor after one press of zoom in.
ZoomedIn == NumAdd(Whole(1), Tenth)

\* Annotations of page 1 and the dimensions captured for it (none, those of
\* a render at half size, those of a render at scale 1.1).  The positions
\* are those of adds and of a right-click at (198, 99) at scale 1.1.
TransformXs    == {Whole(-5), Whole(0), Whole(10), Whole(290),
                   NumDiv(Whole(198), ZoomedIn)}
TransformYs    == {Whole(-5), Whole(20), Whole(390), Whole(790),
                   NumDiv(Whole(99), ZoomedIn)}
TransformSizes == {Whole(8), Whole(16), Whole(72)}
TransformDims  ==
    { <<>>,
      [q \in {1} |-> [width |-> Whole(300), height |-> Whole(400)]],
      [q \in {1} |-> RenderedSize(1, ZoomedIn)] }

TransformInputs ==
    {[x |-> x, y |-> y, size |-> z, dims |-> d] :
        x \in TransformXs, y \in TransformYs, z \in TransformSizes, d \in TransformDims}

InitTransform ==
    /\ Idle
    /\ search = <<>>
    /\ fnIn \in TransformInputs
    /\ fnOut = Null
    /\ fnPc = "ready"

\* The loops of exportPDF over a collection of the one annotation.
DrawOnPage ==
    /\ fnPc = "ready"
    /\ fnOut' = DrawAll(Arr(<< Annotation(Str(<<49>>), Hi, fnIn.x, fnIn.y,
                                          fnIn.size, Red, Whole(1)) >>),
                        fnIn.dims, "custom").calls
    /\ fnPc' = "drawn"
    /\ UNCHANGED <<homeVars, viewerVars, exportVars, now, events, fnIn>>

NextTransform == DrawOnPage

SpecTransform == InitTransform /\ [][NextTransform]_vars

\* (Wl, Hl) of an input: the captured dimensions, the page's own size
\* when none were captured.
Logical(in) == IF in.dims = <<>> THEN PageSize(1) ELSE in.dims[1]

\* C1 (amended): the draw-text call is issued at x = max(0, x) / Wl * Wp and
\* y = max(0, Hp - ((max(0, y) + fontSize) / Hl) * Hp), in the arithmetic of
\* doubles; x = 10, y = 20, fontSize = 16 with 300 x 400 captured on a
\* 600 x 800 page draws at (20, 728).
C1_DrawPoint ==
    fnPc = "drawn" =>
        /\ Len(fnOut) = 1
        /\ fnOut[1].x = NumMul(NumDiv(MathMax(Whole(0), fnIn.x), Logical(fnIn).width),
                               PageSize(1).width)
        /\ fnOut[1].y =
              MathMax(Whole(0),
                      NumSub(PageSize(1).height,
                             NumMul(NumDiv(NumAdd(MathMax(Whole(0), fnIn.y), fnIn.size),
                                           Logical(fnIn).height),
                                    PageSize(1).height)))
        /\ ( /\ fnIn.x = Whole(10) /\ fnIn.y = Whole(20) /\ fnIn.size = Whole(16)
             /\ Logical(fnIn) = [width |-> Whole(300), height |-> Whole(400)] )
           => (fnOut[1].x = Whole(20) /\ fnOut[1].y = Whole(728))

\* The scenario's annotation is drawn at (20, 728).
C1_Witness ==
    /\ fnPc = "drawn"
    /\ fnIn.x = Whole(10) /\ fnIn.y = Whole(20) /\ fnIn.size = Whole(16)
    /\ Logical(fnIn) = [width |-> Whole(300), height |-> Whole(400)]
    /\ fnOut[1].x = Whole(20) /\ fnOut[1].y = Whole(728)

\* C1 as stated: the draw-text call is issued at exactly
\* x = max(0, x) / Wl * Wp and y = Hp - ((max(0, y) + fontSize) / Hl) * Hp.
C1_AsStated ==
    fnPc = "drawn" =>
        /\ fnOut[1].x = NumMul(NumDiv(MathMax(Whole(0), fnIn.x), Logical(fnIn).width),
                               PageSize(1).width)
        /\ fnOut[1].y =
              NumSub(PageSize(1).height,
                     NumMul(NumDiv(NumAdd(MathMax(Whole(0), fnIn.y), fnIn.size),
                                   Logical(fnIn).height),
                            PageSize(1).height))

---------------------------------------------------------------------------
(* The session codec on its own *)

MaxCodecLen == 2

\* Well-formed annotations: texts with the characters the encodings treat
\* apart, whole numbers and fractions (12.75, 0.1, 180.125 and the
\* 179.99999999999997 a right-click at scale 1.1 stores).
CodecAnnotations ==
    { Annotation(Str(<<49>>), Hi, Whole(10), Whole(20), Whole(16), Red, Whole(1)),
      Annotation(Str(<<52>>), Str(Placeholder), Whole(100), Whole(100), Whole(16),
                 Str(Lit(<<"#", "0", "0", "0", "0", "0", "0">>)), Whole(2)),
      Annotation(Str(<<53>>),
                 Str(Lit(<<"a", "\"", "%", " ", "+", "\\", "&", "=", "#", "?">>)),
                 DecimalToDouble(FALSE, <<1, 2, 7, 5>>, -2), Whole(0), Whole(8),
                 Red, Whole(1)),
      Annotation(Str(<<54>>), Str(Lit(<<" ", "/", "~", "'", "%", "4", "1">>) \o <<96, 10>>),
                 Tenth, DecimalToDouble(FALSE, <<1, 8, 0, 1, 2, 5>>, -3), Whole(72),
                 Red, Whole(1)),
      Annotation(Str(<<55>>), Hi, NumDiv(Whole(198), ZoomedIn),
                 NumDiv(Whole(99), ZoomedIn), Whole(16), Red, Whole(1)) }

RECURSIVE SeqsUpTo(_, _)
\* The sequences over S of length n at most.
SeqsUpTo(S, n) ==
    IF n = 0 THEN {<<>>}
    ELSE SeqsUpTo(S, n - 1)
         \cup {Append(q, e) : q \in {r \in SeqsUpTo(S, n - 1) : Len(r) = n - 1}, e \in S}

\* The queries a write finds in the address.
CodecQueries ==
    { <<>>, <<63>> \o K_pdf \o Lit(<<"=", "a">>), Link(TRUE, Encoded(SharedCollection)),
      Link(FALSE, Encoded(SharedCollection)) }

\* A page load on one of the queries, with the collection a viewer will hand
\* to handleAnnotationsChange.
InitCodec ==
    /\ Idle
    /\ search \in CodecQueries
    /\ fnIn \in {Arr(q) : q \in SeqsUpTo(CodecAnnotations, MaxCodecLen)}
    /\ fnOut = Null
    /\ fnPc = "ready"

\* The viewer calls onAnnotationsChange(fnIn): handleAnnotationsChange sets
\* the annotation state and writes the address, and the viewer renders.
CodecWrite ==
    /\ Live
    /\ fnPc = "ready"
    /\ handleAnnotationsChange(fnIn)
    /\ fnPc' = "written"
    /\ UNCHANGED <<numPages, pageNumber, scale, newText, fontSize, textColor,
                   pdfDimensions, selectedAnnotation, editingText, timers,
                   now, events, exportVars, fnIn, fnOut>>
    /\ Rendered

\* The page is opened on the address written: Home starts from its useState
\* initial values and the mount effect runs on window.location.search; a
\* viewer shown by the pdf parameter starts from its own initial values.
CodecRead ==
    /\ fnPc = "written"
    /\ mounted' = TRUE
    /\ pdfFile' = FALSE
    /\ pdfUrl' = PdfUrlAfterMount(search)
    /\ annotations' = AnnotationsAfterMount(search, Arr(<<>>))
    /\ ViewerMounts
    /\ crashed' = (pdfUrl' /\ RenderThrows(annotations', pageNumber', selectedAnnotation'))
    /\ fnPc' = "read"
    /\ UNCHANGED <<search, now, events, exportVars, fnIn, fnOut>>

NextCodec ==
    \/ (MountEffect /\ UNCHANGED events)
    \/ (handleFileUpload /\ UNCHANGED events)
    \/ CodecWrite
    \/ CodecRead

SpecCodec == InitCodec /\ [][NextCodec]_vars

\* C7: writing a well-formed collection to the `annotations` parameter as
\* handleAnnotationsChange does and reading it back as the mount effect does
\* on load gives the collection: the same elements in the same order, with
\* the same fields and values.
C7_RoundTrip == fnPc = "read" => (mounted /\ annotations = fnIn)

\* A collection of MaxCodecLen annotations with quotes, percent signs and
\* spaces in a text and a fraction of seventeen digits among its positions
\* has been written over the collection of a shared link and read back.
C7_Witness ==
    /\ fnPc = "read"
    /\ Len(fnIn.a) = MaxCodecLen
    /\ \E i \in 1..Len(fnIn.a) : 37 \in {Prop(fnIn.a[i], K_text).s[j] :
                                           j \in 1..Len(Prop(fnIn.a[i], K_text).s)}
    /\ \E i \in 1..Len(fnIn.a) : Prop(fnIn.a[i], K_x) = NumDiv(Whole(198), ZoomedIn)
    /\ pdfUrl
    /\ annotations = fnIn

---------------------------------------------------------------------------
(* Sessions that zoom *)

\* Zoom presses taken away from scale 1, either way, in these sessions.
MaxZoomFar == 42

ZoomFarLow  == NumSub(Whole(1), NumMul(Whole(MaxZoomFar), Tenth))
ZoomFarHigh == NumAdd(Whole(1), NumMul(Whole(MaxZoomFar), Tenth))

\* The viewer has just been opened on an uploaded file.
InitZoom ==
    /\ mounted = TRUE
    /\ pdfFile = TRUE
    /\ pdfUrl = FALSE
    /\ annotations = Arr(<<>>)
    /\ search = <<>>
    /\ ViewerInit
    /\ now = FirstTick
    /\ events = 0
    /\ ExportIdle
    /\ FnOff

NextZoom ==
    \/ (zoomOutWithin(ZoomFarLow) /\ UNCHANGED events)
    \/ (zoomInWithin(ZoomFarHigh) /\ UNCHANGED events)
    \/ (onDocumentLoadSuccess /\ UNCHANGED events)
    \/ (previousPage /\ UNCHANGED events)
    \/ (nextPage /\ UNCHANGED events)

SpecZoom == InitZoom /\ [][NextZoom]_vars

\* C12: in every state of a session of zoom presses that starts at scale 1,
\* the zoom factor is strictly positive and within 0.1 to 5.0.
C12_ScaleInRange ==
    /\ NumLt(Zero(FALSE), scale)
    /\ NumLe(Tenth, scale)
    /\ NumLe(scale, Whole(5))

---------------------------------------------------------------------------
(* Properties of the session *)

Records == IF IsArr(annotations) THEN annotations.a ELSE <<>>

\* C2: in every state, every annotation of the collection has x >= 0 and
\* y >= 0.
C2_PositionsNonNegative ==
    \A i \in 1..Len(Records) :
        /\ IsNum(Prop(Records[i], K_x)) => NumLe(Whole(0), Prop(Records[i], K_x))
        /\ IsNum(Prop(Records[i], K_y)) => NumLe(Whole(0), Prop(Records[i], K_y))

\* The queries whose `annotations` value encodes no array of records.
MalformedSearches == {Link(b, v) : b \in BOOLEAN, v \in MalformedValues}

\* C8: a session loaded with an `annotations` value that encodes no array of
\* annotation records keeps the empty collection, and no exception escapes.
C8_MalformedLeavesEmpty ==
    (mounted /\ search \in MalformedSearches) =>
        (annotations = Arr(<<>>) /\ ~crashed)

\* C9: in every state, no two annotations of the collection share an id.
C9_IdsUnique ==
    \A i, j \in 1..Len(Records) :
        i # j => Prop(Records[i], K_id) # Prop(Records[j], K_id)

\* C10: in every state, every annotation of the collection has a pageNumber
\* p with 1 <= p <= the page count of the document the viewer shows.
C10_PagesExist ==
    ViewerShown =>
        \A i \in 1..Len(Records) :
            /\ IsNum(Prop(Records[i], K_pageNumber))
            /\ NumLe(Whole(1), Prop(Records[i], K_pageNumber))
            /\ NumLe(Prop(Records[i], K_pageNumber), Whole(DocPages))

\* C11: in every state, every annotation of the collection has a fontSize
\* that is an integer with 8 <= fontSize <= 72: an add with a size outside
\* the range is refused, and the font-size fields store no such size.
C11_FontSizeInRange ==
    \A i \in 1..Len(Records) :
        /\ IsNum(Prop(Records[i], K_fontSize))
        /\ IsFinite(Prop(Records[i], K_fontSize))
        /\ Prop(Records[i], K_fontSize).e >= 0
        /\ NumLe(Whole(8), Prop(Records[i], K_fontSize))
        /\ NumLe(Prop(Records[i], K_fontSize), Whole(72))

---------------------------------------------------------------------------
(* Properties of the export *)

\* The loops of invocation n have run (a font was embedded).
LoopsRan(n) == expFont[n] # "none"

\* Invocation n came to pdfDoc.save().
CameToSave(n) == expPc[n] \in {"save", "done"} \/ expAlert[n] = "save"

\* The records of the collection invocation n works on.
Exported(n) == expAnnotations[n].a

\* The annotation at position i of invocation n fails on its own: its color,
\* a conversion of its position, rgb or drawText throws.
FailsAlone(n, i) ==
    LET d == DrawOne(i, Exported(n)[i], PageOf(GroupKey(Exported(n)[i])),
                     expDims[n], expFont[n])
    IN  d.threw \/ ~d.ok

\* The positions of the collection of invocation n whose page the document
\* has.
OnPages(n) ==
    {i \in 1..Len(Exported(n)) :
        /\ ~ConvThrows(Prop(Exported(n)[i], K_pageNumber))
        /\ HasPage(GroupKey(Exported(n)[i]))}

\* The annotation at position i was handed to drawText and drawn.
Drawn(n, i) == \E k \in 1..Len(draws[n]) : draws[n][k].i = i /\ draws[n][k].ok

\* C3: a failure on one annotation (color decoding, rgb, drawText) skips
\* only that annotation: every other annotation of a page of the document
\* is drawn, and the export comes to save with no alert for the failure.
C3_FailureSkipsOne ==
    \A n \in Invocations :
        LoopsRan(n) =>
            /\ CameToSave(n) /\ expAlert[n] # "annotation"
            /\ \A i \in OnPages(n) : ~FailsAlone(n, i) => Drawn(n, i)

\* C4: when the custom font fails the export does not abort: every
\* annotation of a page of the document is taken to drawing with the
\* standard font and the export comes to save; and the failure alert
\* follows a failure to load the source only.
C4_FontFailureNotFatal ==
    \A n \in Invocations :
        /\ expFont[n] = "standard" =>
              /\ CameToSave(n) /\ expAlert[n] # "annotation"
              /\ \A i \in OnPages(n) :
                    \E k \in 1..Len(draws[n]) :
                        draws[n][k].i = i /\ draws[n][k].font = "standard"
        /\ expAlert[n] \in {"none", "load"}

\* C5: with annotations on no page of the document in the collection, the
\* export does not throw: none of them is drawn, the annotations of the
\* document's pages are drawn on their pages, and the export comes to save.
C5_OutOfRangeSkipped ==
    \A n \in Invocations :
        (LoopsRan(n) /\ OnPages(n) # 1..Len(Exported(n))) =>
            /\ CameToSave(n)
            /\ \A k \in 1..Len(draws[n]) : draws[n][k].i \in OnPages(n)
            /\ \A i \in OnPages(n) :
                  \E k \in 1..Len(draws[n]) :
                      /\ draws[n][k].i = i
                      /\ Whole(draws[n][k].page) = Prop(Exported(n)[i], K_pageNumber)

\* Invocation n is between its start and its loops.
InFlight(n) == expPc[n] \in {"source", "font", "fallback"}

====
